---- MODULE Spec2Model ----
(***************************************************************************)
(* A model of nutils' solver module (src/nutils/solver.py): the driving    *)
(* loop solve, the withsolve wrapper, the newton generator with its line   *)
(* search, solve_linear and thetamethod.                                   *)
(*                                                                         *)
(* Generators are coroutines: the consumer (solve, or a plain loop) calls  *)
(* next() by putting a call on `chan`; the generator runs until it yields, *)
(* returns (StopIteration) or raises, and answers on `chan`.               *)
(*                                                                         *)
(* Floating point numbers are modelled as extended rationals <<n, d>>:     *)
(* d > 0 is the rational n/d (in lowest terms), <<1,0>> is +inf, <<-1,0>>  *)
(* is -inf and <<0,0>> is not-a-number, with IEEE comparisons (every       *)
(* comparison with not-a-number is false).                                 *)
(***************************************************************************)
EXTENDS Integers, Sequences, FiniteSets, TLC

\* ------------------------------------------------------------------ bounds

\* longest sequence of pairs a generic generator yields
MaxLen == 3
\* largest finite maxiter handed to solve
MaxIterBound == 2
\* largest finite residual norm an evaluation produces
NormBound == 2
\* largest tolerance handed to solve
TolBound == 1
\* number of entries of the coefficient vector
NDofs == 2
\* largest finite nrelax handed to newton
NRelaxBound == 1
\* line-search sub-steps explored when nrelax is infinite
MaxSub == 2
\* outer Newton iterations explored
MaxOuter == 2
\* denominator of the floats numpy.sqrt returns
SqrtDen == 4
\* the timesteps drawn from thetamethod after the initial state
MaxSteps == 2
\* the (domain, ischeme) keys of integrals
NKeys == 2
\* the integrals built in one run
MaxPool == 3
\* the calls in a row that build no integral (evaluations, queries, failures)
MaxObs == 1
\* the progress iterators of one run
NGens == 2
\* the largest number in the arguments of a progress iterator
MaxItems == 2
\* the items drawn from log.count
MaxCount == 2
\* the with-blocks open at one time
MaxBlocks == 1

\* ------------------------------------------------------- float arithmetic

Sign(n) == IF n > 0 THEN 1 ELSE IF n < 0 THEN -1 ELSE 0
Abs(n) == IF n < 0 THEN -n ELSE n

RECURSIVE Gcd(_, _)
Gcd(a, b) == IF b = 0 THEN a ELSE Gcd(b, a % b)

\* the float n/d, in canonical form
Float(n, d) ==
  IF d = 0 THEN <<Sign(n), 0>>
  ELSE LET g == Gcd(Abs(n), Abs(d))
           s == Sign(d)
       IN  <<(s * n) \div g, (s * d) \div g>>

Num(n) == <<n, 1>>
NaN == <<0, 0>>
PosInf == <<1, 0>>
NegInf == <<-1, 0>>

IsNaN(x) == x[1] = 0 /\ x[2] = 0
IsFinite(x) == x[2] # 0
IsInf(x) == x[2] = 0 /\ x[1] # 0

Neg(x) == <<-x[1], x[2]>>

Add(x, y) ==
  IF IsNaN(x) \/ IsNaN(y) THEN NaN
  ELSE IF IsInf(x) /\ IsInf(y) THEN (IF x[1] = y[1] THEN x ELSE NaN)
  ELSE IF IsInf(x) THEN x
  ELSE IF IsInf(y) THEN y
  ELSE Float(x[1] * y[2] + y[1] * x[2], x[2] * y[2])

Sub(x, y) == Add(x, Neg(y))

Mul(x, y) ==
  IF IsNaN(x) \/ IsNaN(y) THEN NaN
  ELSE Float(x[1] * y[1], x[2] * y[2])

\* 1/x as numpy computes it: 1/0 is inf, 1/inf is 0
Recip(x) ==
  IF IsNaN(x) THEN NaN
  ELSE IF IsInf(x) THEN Num(0)
  ELSE IF x[1] = 0 THEN PosInf
  ELSE <<Sign(x[1]) * x[2], Abs(x[1])>>

Div(x, y) == Mul(x, Recip(y))

Gt(x, y) ==
  IF IsNaN(x) \/ IsNaN(y) THEN FALSE
  ELSE IF IsInf(x) /\ IsInf(y) THEN x[1] > y[1]
  ELSE IF IsInf(x) THEN x[1] > 0
  ELSE IF IsInf(y) THEN y[1] < 0
  ELSE x[1] * y[2] > y[1] * x[2]

Lt(x, y) == Gt(y, x)
Ge(x, y) == ~IsNaN(x) /\ ~IsNaN(y) /\ ~Gt(y, x)
Le(x, y) == Ge(y, x)

\* Python's builtin max(a, b) and min(a, b): the first argument unless the
\* second compares greater (smaller)
PyMax(a, b) == IF Gt(b, a) THEN b ELSE a
PyMin(a, b) == IF Lt(b, a) THEN b ELSE a

\* the largest k in lo..hi with k*k <= m
RECURSIVE ISqrt(_, _, _)
ISqrt(m, lo, hi) ==
  IF lo >= hi THEN lo
  ELSE LET mid == (lo + hi + 1) \div 2
       IN  IF mid * mid <= m THEN ISqrt(m, mid, hi) ELSE ISqrt(m, lo, mid - 1)

\* numpy.sqrt, rounded down to a multiple of 1/SqrtDen
Sqrt(x) ==
  IF IsNaN(x) \/ Lt(x, Num(0)) THEN NaN
  ELSE IF IsInf(x) THEN PosInf
  ELSE LET m == (x[1] * SqrtDen * SqrtDen) \div x[2]
       IN  Float(ISqrt(m, 0, m), SqrtDen)

\* ---------------------------------------------------------------- vectors

Dofs == 1..NDofs
VZeros == [i \in Dofs |-> Num(0)]
VAdd(u, v) == [i \in Dofs |-> Add(u[i], v[i])]
VSub(u, v) == [i \in Dofs |-> Sub(u[i], v[i])]
VScale(a, v) == [i \in Dofs |-> Mul(a, v[i])]
VNeg(v) == [i \in Dofs |-> Neg(v[i])]

\* ---------------------------------------------------------------- state

VARIABLES
  \* solve (solver.py 199-236)
  spc,        \* "start" | "first" (in the next() of line 222) | "loop" (in the next() of line 230) | "done"
  tol,        \* float
  maxiter,    \* float: Num(n) or PosInf
  lhs,        \* the iterate solve holds
  resnorm,    \* the norm solve holds
  resnorm0,   \* the first norm
  inewton,    \* iteration count
  outcome,    \* "none" | "returned" | the exception that left solve
  retval,     \* the iterate returned (0: none)
  ndrawn,     \* number of pairs solve has received
  pynum,      \* <<resnorm0 is a Python number, resnorm is one>> (else numpy.float64)
  ctx,        \* the log's context list (log.py ContextLog._context)
  logs,       \* set of <<level, message>> written to the log
  \* the generator protocol
  chan,       \* [kind: "idle" | "call" | "yield" | "stop" | "raise", item, err,
              \*  py: the norm of the item is a Python number]
  \* a generic generator of pairs
  gseq,       \* the items it yields, in order
  gpos,       \* the number of items yielded so far
  gpy,        \* its norms are Python numbers (else numpy.float64)
  \* arrays: references are indices into heap (0: None)
  heap,
  \* newton (solver.py 264-386)
  residual,   \* the residual integral: [found: it holds the target, linear: its jacobian does not]
  nargs,      \* the arguments of the call
  nw,         \* the generator's frame
  \* thetamethod (solver.py 453-499)
  targs,      \* the arguments of the call
  th,         \* the generator's frame
  tchan,      \* the protocol between thetamethod and the loop that draws from it
  \* the object an entry point returns (withsolve, solver.py 239-261)
  entry,      \* "newton" | "pseudotime" | "thetamethod"
  wargs,      \* the (tol, maxiter) the caller passes
  phase,      \* 1: obj.solve(tol, maxiter); 2: solve(iter(obj), tol, maxiter) on a fresh obj
  first,      \* the result of phase 1
  \* solve_linear (solver.py 169-196)
  sl,         \* [pc, constrain, hastarget, result, err, nevals, nsolves, solved]
  \* Integral (solver.py 73-163) and _find_argument (solver.py 45-70)
  pool,       \* the integrals built so far, in order of creation
  last,       \* the last operation: [op, args, err, result, calls]
  \* pseudotime (solver.py 389-450)
  pt,         \* the arguments of the call and the generator's frame
  \* optimize (solver.py 506-566)
  op,         \* the arguments of the call and the function's frame
  \* progress iterators and with-blocks on one log (log.py 45-75, 189-260)
  lp          \* the iterators' calls and frames, the open scopes in order of entry

solveVars ==
  <<spc, tol, maxiter, lhs, resnorm, resnorm0, inewton, outcome, retval, ndrawn, pynum>>
logVars == <<ctx, logs>>
genVars == <<gseq, gpos, gpy>>
newtonVars == <<residual, nargs, nw>>
thetaVars == <<targs, th, tchan>>
withVars == <<entry, wargs, phase, first>>
integralVars == <<pool, last>>
vars ==
  <<solveVars, logVars, chan, genVars, heap, newtonVars, thetaVars, withVars, sl,
    integralVars, lp, pt, op>>
\* what solve does not touch, and what a generator does not touch
outsideSolve == <<genVars, heap, newtonVars, thetaVars, withVars, sl, integralVars, lp, pt, op>>
outsideNewton == <<solveVars, ctx, genVars, thetaVars, withVars, sl, integralVars, lp, pt, op>>

\* ------------------------------------------------------ generator protocol

Idle == [kind |-> "idle", item |-> <<>>, err |-> "", py |-> FALSE]
Call == [kind |-> "call", item |-> <<>>, err |-> "", py |-> FALSE]
Yield(item) == [kind |-> "yield", item |-> item, err |-> "", py |-> FALSE]
YieldPy(item) == [kind |-> "yield", item |-> item, err |-> "", py |-> TRUE]
Stop == [kind |-> "stop", item |-> <<>>, err |-> "", py |-> FALSE]
Raise(e) == [kind |-> "raise", item |-> <<>>, err |-> e, py |-> FALSE]

FinNorms == {Num(n) : n \in 0..NormBound}
\* the residual norms a generator can report
NormVals == FinNorms \cup {PosInf, NaN}
Tols == {Num(n) : n \in 0..TolBound}
MaxIters == {Num(n) : n \in 0..MaxIterBound} \cup {PosInf}

\* ---------------------------------------------------------------- solve

ErrStopped == "ModelError: generator stopped before reaching target tolerance"
ErrNotReached == "ModelError: tolerance not reached"
ErrUnpack == "ValueError: cannot unpack"
ErrZeroDivision == "ZeroDivisionError: division by zero"

\* the test of the while loop, line 225
NotConverged(r, t) == Gt(r, t)

\* the iteration limit, line 226
LimitHit(i, m) == Ge(Num(i), m)

\* a solve that lets the StopIteration of the generator through
OnStopIterationPropagates == "StopIteration"

\* what solve does with the StopIteration of a next(), lines 232-233
OnStopIteration == ErrStopped

\* `lhs, resnorm = item`: an item unpacks when it has two components
Unpacks(item) == Len(item) = 2

IsZero(x) == x[1] = 0 /\ x[2] # 0

\* line 228: the title of the context holds resnorm0/resnorm and resnorm0/tol.
\* A division of Python numbers by zero raises; one with a numpy.float64
\* operand gives inf or nan. tol is a Python number, as its default is.
TitleRaises(r0, r, t, py) == py[1] /\ ((py[2] /\ IsZero(r)) \/ IsZero(t))

\* a variant that leaves the list as it is
PopContextKeeps(c) == c

\* log.py lines 60-64: a context is appended to the list, the last one is removed
PushContext(c, title) == Append(c, title)
PopContext(c) == SubSeq(c, 1, Len(c) - 1)

\* solve from the test of the while loop (line 225) to its next call of
\* next() (line 230), its raise (lines 227, 228) or its return (line 236),
\* holding iterate l with norm r after i iterations, under context list c,
\* the first norm being r0 and py telling the types of r0 and r
WhileLoop(l, r, i, c, r0, py) ==
  IF ~NotConverged(r, tol)
  THEN /\ spc' = "done"
       /\ outcome' = "returned"
       /\ retval' = l
       /\ logs' = logs \cup {<<"info", "tolerance reached">>}
       /\ ctx' = c
       /\ chan' = Idle
  ELSE IF LimitHit(i, maxiter)
  THEN /\ spc' = "done"
       /\ outcome' = ErrNotReached
       /\ retval' = 0
       /\ logs' = logs
       /\ ctx' = c
       /\ chan' = Idle
  ELSE IF TitleRaises(r0, r, tol, py)
  THEN /\ spc' = "done"
       /\ outcome' = ErrZeroDivision
       /\ retval' = 0
       /\ logs' = logs
       /\ ctx' = c
       /\ chan' = Idle
  ELSE /\ spc' = "loop"
       /\ outcome' = outcome
       /\ retval' = retval
       /\ logs' = logs \cup {<<"info", "residual">>}
       /\ ctx' = Append(c, <<"iter", i>>)
       /\ chan' = Call

\* solve ends with exception e, under context list c
SolveRaises(e, c) ==
  /\ spc' = "done"
  /\ outcome' = e
  /\ retval' = 0
  /\ ctx' = c
  /\ UNCHANGED <<lhs, resnorm, resnorm0, inewton, ndrawn, pynum, logs, chan>>

\* line 222: the first next()
SolveStart ==
  /\ spc = "start"
  /\ chan.kind = "idle"
  /\ spc' = "first"
  /\ chan' = Call
  /\ UNCHANGED <<tol, maxiter, lhs, resnorm, resnorm0, inewton, outcome, retval, ndrawn, pynum>>
  /\ UNCHANGED <<logVars, outsideSolve>>

\* lines 222-230: the first next() has answered
SolveFirstReturn ==
  /\ spc = "first"
  /\ chan.kind \in {"yield", "stop", "raise"}
  /\ CASE chan.kind = "stop" -> SolveRaises(OnStopIteration, ctx)
       [] chan.kind = "raise" -> SolveRaises(chan.err, ctx)
       [] chan.kind = "yield" /\ ~Unpacks(chan.item) -> SolveRaises(ErrUnpack, ctx)
       [] chan.kind = "yield" /\ Unpacks(chan.item) ->
            /\ lhs' = chan.item[1]
            /\ resnorm' = chan.item[2]
            /\ resnorm0' = chan.item[2]
            /\ inewton' = 0
            /\ ndrawn' = ndrawn + 1
            /\ pynum' = <<chan.py, chan.py>>
            /\ WhileLoop(chan.item[1], chan.item[2], 0, ctx, chan.item[2], <<chan.py, chan.py>>)
  /\ UNCHANGED <<tol, maxiter, outsideSolve>>

\* lines 225-231: the next() inside the context block has answered; the
\* context is popped however the block is left (log.py 71-75)
SolveLoopReturn ==
  /\ spc = "loop"
  /\ chan.kind \in {"yield", "stop", "raise"}
  /\ LET popped == PopContext(ctx) IN
     CASE chan.kind = "stop" -> SolveRaises(OnStopIteration, popped)
       [] chan.kind = "raise" -> SolveRaises(chan.err, popped)
       [] chan.kind = "yield" /\ ~Unpacks(chan.item) -> SolveRaises(ErrUnpack, popped)
       [] chan.kind = "yield" /\ Unpacks(chan.item) ->
            /\ lhs' = chan.item[1]
            /\ resnorm' = chan.item[2]
            /\ resnorm0' = resnorm0
            /\ inewton' = inewton + 1
            /\ ndrawn' = ndrawn + 1
            /\ pynum' = <<pynum[1], chan.py>>
            /\ WhileLoop(chan.item[1], chan.item[2], inewton + 1, popped, resnorm0, <<pynum[1], chan.py>>)
  /\ UNCHANGED <<tol, maxiter, outsideSolve>>


\* solve has not started, nothing is logged
InitSolveState ==
  /\ lhs = 0
  /\ resnorm = NaN
  /\ resnorm0 = NaN
  /\ inewton = 0
  /\ outcome = "none"
  /\ retval = 0
  /\ ndrawn = 0
  /\ pynum = <<FALSE, FALSE>>
  /\ ctx = <<>>
  /\ logs = {}
  /\ chan = Idle

\* ------------------------------------------------- external collaborators

\* the values the free entries of a linear solve take (all the same)
SolVals == {Num(-1), Num(2)}
\* the slopes 2 <jac dlhs, res> an evaluation with a finite nonzero residual gives
D1Vals == {Num(-1), Num(3)}

\* jac.solve(rhs, constrain=cons): entries fixed by cons (not NaN) hold the
\* value of cons, the free entries solve the system
MatSolve(cons) ==
  {[i \in Dofs |-> IF IsNaN(cons[i]) THEN v ELSE cons[i]] : v \in SolVals}

\* a variant that evaluates at the zero vector whatever the point
EvalsAtOrigin(point, mask) ==
  {[at |-> VZeros, norm |-> n, d1 |-> Num(0)] : n \in FinNorms}

\* Integral.multieval(residual, jacobian, arguments={target: point}) for a
\* vector with the entries of mask fixed: the point, the norm of the residual
\* over the free entries (0 when there is none) and the slope d1 along the
\* search direction
Evals(point, mask) ==
  IF \A i \in Dofs: mask[i]
  THEN {[at |-> point, norm |-> Num(0), d1 |-> Num(0)]}
  ELSE {[at |-> point, norm |-> Num(0), d1 |-> Num(0)]}
       \cup {[at |-> point, norm |-> n, d1 |-> d] : n \in FinNorms \ {Num(0)}, d \in D1Vals}
       \cup {[at |-> point, norm |-> n, d1 |-> NaN] : n \in {PosInf, NaN}}

\* --------------------------------------------------------------- newton

ErrTargetInArguments == "AssertionError: target should not be defined in arguments"
ErrTargetNotFound == "ValueError: target not found"

\* lines 319-322: the starting vector, zeros when none is given
GivenLhs0(a, h) == IF a.lhs0 = 0 THEN VZeros ELSE h[a.lhs0]

\* lines 324-330: the starting vector with the values of a float constraint
\* vector imposed
NormLhs0(a, h) ==
  IF a.constrain.kind = "float"
  THEN [i \in Dofs |-> IF IsNaN(a.constrain.vec[i]) THEN GivenLhs0(a, h)[i] ELSE a.constrain.vec[i]]
  ELSE GivenLhs0(a, h)

\* lines 324-330: the constraint as a mask of fixed entries
NormConstrain(a) ==
  CASE a.constrain.kind = "none" -> [i \in Dofs |-> FALSE]
    [] a.constrain.kind = "bool" -> a.constrain.vec
    [] a.constrain.kind = "float" -> [i \in Dofs |-> ~IsNaN(a.constrain.vec[i])]

\* a linear solve that fixes the constrained entries at zero
LinConsZero(lhs0, mask) == [i \in Dofs |-> IF mask[i] THEN Num(0) ELSE NaN]

\* lines 336-337: the constraints of the linear solve
LinCons(lhs0, mask) == [i \in Dofs |-> IF mask[i] THEN lhs0[i] ELSE NaN]

\* lines 345-346: the constraints of a Newton update
ZCons(mask) == [i \in Dofs |-> IF mask[i] THEN Num(0) ELSE NaN]

\* line 352: the relaxation an outer iteration starts with
Rebound(relax, rebound) == PyMin(Mul(relax, rebound), Num(1))

\* line 385: the relaxation of the next sub-step
Shrink(relax, newrelax, minrelax) == Mul(relax, PyMax(newrelax, minrelax))

\* line 386: the update of the iterate
Update(v, relax, dlhs) == VAdd(v, VScale(relax, dlhs))

\* a limit that is hit one sub-step late
RelaxLimitLate(irelax, nrelax) == Gt(Num(irelax), nrelax)

\* line 356: the sub-step limit
RelaxLimitHit(irelax, nrelax) == Ge(Num(irelax), nrelax)

\* the test of line 357 with its operands exchanged
DivergedSwapped(newresnorm, oldresnorm) == Gt(oldresnorm, newresnorm)

\* line 357: the test for divergence at the sub-step limit
Diverged(newresnorm, oldresnorm) == Gt(newresnorm, oldresnorm)

\* lines 365-384: the estimate of the optimal relaxation from a finite trial
\* norm: [accept: break out of the line search, newrelax]
Estimate(oldresnorm, newresnorm, d1, maxrelax) ==
  LET r0 == Mul(oldresnorm, oldresnorm)
      d0 == Mul(Num(-2), r0)
      r1 == Mul(newresnorm, newresnorm)
      D == Add(Add(Sub(Mul(Num(2), r0), Mul(Num(2), r1)), d0), d1)
      C3 == Sub(Sub(Sub(Mul(Num(3), r1), Mul(Num(3), r0)), Mul(Num(2), d0)), d1)
      cubic == Div(Sub(Sqrt(Sub(Mul(C3, C3), Mul(Mul(Num(3), d0), D))), C3), Mul(Num(3), D))
      C2 == Sub(Sub(r1, r0), d0)
      quadratic == Div(Mul(Float(-1, 2), d0), C2)
      newrelax == IF Gt(D, Num(0)) THEN cubic ELSE quadratic
  IN  IF Le(r1, r0) /\ Le(d1, Num(0)) THEN [accept |-> TRUE, newrelax |-> NaN]
      ELSE IF Gt(newrelax, maxrelax) THEN [accept |-> TRUE, newrelax |-> newrelax]
      ELSE [accept |-> FALSE, newrelax |-> newrelax]

\* lines 356-385: one pass through the body of the line search after the
\* evaluation of the trial point: [act: "diverged" | "accept" | "shrink", newrelax]
LineSearch(irelax, nrelax, oldresnorm, newresnorm, d1, maxrelax) ==
  IF RelaxLimitHit(irelax, nrelax)
  THEN [act |-> IF Diverged(newresnorm, oldresnorm) THEN "diverged" ELSE "accept", newrelax |-> NaN]
  ELSE IF ~IsFinite(newresnorm)
  THEN [act |-> "shrink", newrelax |-> Num(0)]
  ELSE LET e == Estimate(oldresnorm, newresnorm, d1, maxrelax)
       IN  [act |-> IF e.accept THEN "accept" ELSE "shrink", newrelax |-> e.newrelax]

NoArgs ==
  [lhs0 |-> 0, constrain |-> [kind |-> "none", vec |-> <<>>], nrelax |-> PosInf,
   minrelax |-> Float(1, 10), maxrelax |-> Float(7, 10), rebound |-> Float(7, 5),
   hastarget |-> FALSE, prev |-> 0]
NoThetaArgs ==
  [lhs0 |-> 0, constrain |-> [kind |-> "none", vec |-> <<>>], tol |-> Num(0),
   nrelax |-> PosInf, hastarget |-> FALSE, target0 |-> FALSE, hastarget0 |-> FALSE]
ThCreated == [pc |-> "created", lhs |-> 0, yielded |-> <<>>]
\* no thetamethod, no entry point object, no solve_linear in this run
NoTheta == targs = NoThetaArgs /\ th = ThCreated /\ tchan = Idle
NoResult == [outcome |-> "none", retval |-> 0, ndrawn |-> 0]
NoWith ==
  entry = "none" /\ wargs = [tol |-> Num(0), maxiter |-> PosInf] /\ phase = 0 /\ first = NoResult
NoRes == [at |-> VZeros, norm |-> NaN, d1 |-> NaN]
NoSolve == [rhs |-> "none", at |-> VZeros, cons |-> VZeros]

NoLinear ==
  [pc |-> "none", constrain |-> [kind |-> "none", vec |-> <<>>], hastarget |-> FALSE,
   result |-> 0, err |-> "none", nevals |-> 0, nsolves |-> 0, solved |-> NoSolve]

\* no integral is built, no pseudotime, no optimize in this run
NoLast ==
  [op |-> "none", args |-> <<>>, aux |-> <<>>, err |-> "none", result |-> 0,
   value |-> <<>>, calls |-> <<>>, nobs |-> 0]
NoIntegral == pool = <<>> /\ last = NoLast
\* no progress iterator and no with-block in this run
NoLog == [gens |-> <<>>, entered |-> <<>>, nblocks |-> 0]
NoPseudo ==
  [pc |-> "none", lhs0 |-> 0, constrain |-> [kind |-> "none", vec |-> <<>>],
   hastarget |-> FALSE, inertia |-> TRUE, mask |-> [i \in Dofs |-> FALSE], timestep |-> Num(1),
   lhs |-> 0, res |-> NoRes, resnorm |-> NaN, resnorm0 |-> NaN, thistimestep |-> Num(1),
   prevnorm |-> NaN, prevstep |-> Num(1),
   nevals |-> 0, nsolves |-> 0, nyields |-> 0]
NoOptimize ==
  [pc |-> "none", lhs0 |-> 0, constrain |-> [kind |-> "none", vec |-> <<>>],
   hastarget |-> FALSE, scalar |-> TRUE, droptol |-> FALSE,
   newtontol |-> [given |-> FALSE, val |-> NaN],
   nandofs |-> [i \in Dofs |-> FALSE], fixed |-> [i \in Dofs |-> FALSE],
   step |-> VZeros, result |-> 0, err |-> "none",
   nevals |-> 0, nsolves |-> 0, newtons |-> 0]

\* the frame of a generator that has not started
NwCreated ==
  [pc |-> "created", lhs0 |-> VZeros, constrain |-> [i \in Dofs |-> FALSE], lhs |-> 0,
   res |-> NoRes, resnorm |-> NaN, dlhs |-> VZeros, relax |-> Num(1), irelax |-> 0,
   nevals |-> 0, nsolves |-> 0, nyields |-> 0, ntrials |-> 0, solved |-> NoSolve]

\* the trial point of line 354
TrialPoint == Update(heap[nw.lhs], nw.relax, nw.dlhs)

NewtonRaises(e) ==
  /\ nw' = [nw EXCEPT !.pc = "raised"]
  /\ chan' = Raise(e)
  /\ UNCHANGED <<heap, logs>>

\* lines 316-350: from the first next() to the first yield
NewtonStart ==
  /\ chan.kind = "call"
  /\ nw.pc = "created"
  /\ IF nargs.hastarget THEN NewtonRaises(ErrTargetInArguments)
     ELSE IF ~residual.found THEN NewtonRaises(ErrTargetNotFound)
     ELSE LET lhs0n == NormLhs0(nargs, heap)
              mask == NormConstrain(nargs)
              ref == Len(heap) + 1
          IN  IF residual.linear
              THEN \E e \in Evals(VZeros, mask), x \in MatSolve(LinCons(lhs0n, mask)):
                     /\ heap' = Append(heap, x)
                     /\ nw' = [nw EXCEPT !.pc = "linear", !.lhs0 = lhs0n, !.constrain = mask,
                                         !.res = e, !.lhs = ref, !.nevals = @ + 1,
                                         !.nsolves = @ + 1, !.nyields = @ + 1,
                                         !.solved = [rhs |-> "-res", at |-> e.at, cons |-> LinCons(lhs0n, mask)]]
                     /\ logs' = logs \cup {<<"info", "problem is linear">>}
                     /\ chan' = YieldPy(<<ref, Num(0)>>)
              ELSE \E e \in Evals(lhs0n, mask):
                     /\ heap' = Append(heap, lhs0n)
                     /\ nw' = [nw EXCEPT !.pc = "iter", !.lhs0 = lhs0n, !.constrain = mask,
                                         !.res = e, !.resnorm = e.norm, !.relax = Num(1),
                                         !.lhs = ref, !.nevals = @ + 1, !.nyields = @ + 1]
                     /\ logs' = logs
                     /\ chan' = Yield(<<ref, e.norm>>)
  /\ UNCHANGED <<outsideNewton, residual, nargs>>

\* line 340: the generator of a linear problem is resumed, and returns
NewtonLinearReturn ==
  /\ chan.kind = "call"
  /\ nw.pc = "linear"
  /\ nw' = [nw EXCEPT !.pc = "ended"]
  /\ chan' = Stop
  /\ UNCHANGED <<outsideNewton, residual, nargs, heap, logs>>

\* lines 351-353: the generator is resumed, and computes the Newton update
NewtonStep ==
  /\ chan.kind = "call"
  /\ nw.pc = "iter"
  /\ nw.nyields <= MaxOuter
  /\ \E x \in MatSolve(ZCons(nw.constrain)):
       nw' = [nw EXCEPT !.pc = "eval", !.dlhs = VNeg(x),
                        !.relax = Rebound(nw.relax, nargs.rebound), !.irelax = 0,
                        !.nsolves = @ + 1, !.ntrials = 0,
                        !.solved = [rhs |-> "res", at |-> nw.res.at, cons |-> ZCons(nw.constrain)]]
  /\ UNCHANGED <<outsideNewton, residual, nargs, heap, logs, chan>>

\* lines 354-355: the residual at the trial point
NewtonEval ==
  /\ chan.kind = "call"
  /\ nw.pc = "eval"
  /\ nw.irelax <= MaxSub
  /\ \E e \in Evals(TrialPoint, nw.constrain):
       nw' = [nw EXCEPT !.pc = "decide", !.res = e, !.nevals = @ + 1, !.ntrials = @ + 1]
  /\ UNCHANGED <<outsideNewton, residual, nargs, heap, logs, chan>>

\* lines 356-386 and 349-350: the rest of the sub-step: the generator ends,
\* accepts the step and yields, or shrinks the relaxation
NewtonDecide ==
  /\ chan.kind = "call"
  /\ nw.pc = "decide"
  /\ LET ls == LineSearch(nw.irelax, nargs.nrelax, nw.resnorm, nw.res.norm, nw.res.d1, nargs.maxrelax)
     IN  CASE ls.act = "diverged" ->
                /\ logs' = logs \cup {<<"warning", "failed to decrease residual">>}
                /\ nw' = [nw EXCEPT !.pc = "ended"]
                /\ chan' = Stop
                /\ heap' = heap
           [] ls.act = "accept" ->
                /\ logs' = logs
                /\ heap' = [heap EXCEPT ![nw.lhs] = Update(@, nw.relax, nw.dlhs)]
                /\ nw' = [nw EXCEPT !.pc = "iter", !.resnorm = nw.res.norm, !.nyields = @ + 1]
                /\ chan' = Yield(<<nw.lhs, nw.res.norm>>)
           [] ls.act = "shrink" ->
                /\ logs' = logs
                /\ heap' = heap
                /\ nw' = [nw EXCEPT !.pc = "eval", !.irelax = @ + 1,
                                    !.relax = Shrink(nw.relax, ls.newrelax, nargs.minrelax)]
                /\ chan' = chan
  /\ UNCHANGED <<outsideNewton, residual, nargs>>

\* a plain loop over a generator (no solve is running) draws the next item
IterNext ==
  /\ spc = "idle"
  /\ chan.kind \in {"idle", "yield"}
  /\ chan' = Call
  /\ UNCHANGED <<solveVars, logVars, genVars, heap, newtonVars, thetaVars, withVars, sl, integralVars, lp, pt, op>>

\* the entries fixed first: [i <= k]
FixedFirst(k) == [i \in Dofs |-> i <= k]

\* the constrain arguments: none, a boolean mask, a float vector
Constrains ==
  {[kind |-> "none", vec |-> <<>>]}
  \cup {[kind |-> "bool", vec |-> FixedFirst(k)] : k \in 0..NDofs}
  \cup {[kind |-> "float", vec |-> [i \in Dofs |-> IF i <= k THEN Num(5) ELSE NaN]] : k \in 0..NDofs}

NRelaxes == {Num(n) : n \in 0..NRelaxBound} \cup {PosInf}

\* the lhs0 a caller passes
CallerLhs0 == [i \in Dofs |-> Num(1)]

\* the calls of newton: the default minrelax of line 265, a maxrelax of 7/10
\* and 7/5 for the rebound sqrt(2)
NewtonArgs ==
  {[lhs0 |-> l, constrain |-> c, nrelax |-> n, minrelax |-> Float(1, 10),
    maxrelax |-> Float(7, 10), rebound |-> Float(7, 5), hastarget |-> h, prev |-> 0] :
     l \in 0..1, c \in Constrains, n \in NRelaxes, h \in BOOLEAN}

\* ------------------------------------------------------------ solve_linear

ErrNotLinear == "ModelError: problem is not linear"

\* a solve_linear that drops its constrain argument
SolveLinearConsFree(c) == [i \in Dofs |-> NaN]

\* line 196: constrain=None leaves every entry free
SolveLinearCons(c) == IF c.kind = "none" THEN [i \in Dofs |-> NaN] ELSE c.vec

\* lines 190-196: the whole of solve_linear
SolveLinear ==
  /\ sl.pc = "called"
  /\ IF ~residual.found
       THEN sl' = [sl EXCEPT !.pc = "done", !.err = ErrTargetNotFound] /\ heap' = heap
     ELSE IF ~residual.linear
       THEN sl' = [sl EXCEPT !.pc = "done", !.err = ErrNotLinear] /\ heap' = heap
     ELSE IF sl.hastarget
       THEN sl' = [sl EXCEPT !.pc = "done", !.err = ErrTargetInArguments] /\ heap' = heap
     ELSE LET cons == SolveLinearCons(sl.constrain)
          IN  \E e \in Evals(VZeros, [i \in Dofs |-> FALSE]), x \in MatSolve(cons):
                /\ heap' = Append(heap, x)
                /\ sl' = [sl EXCEPT !.pc = "done", !.result = Len(heap) + 1,
                                    !.nevals = @ + 1, !.nsolves = @ + 1,
                                    !.solved = [rhs |-> "-res", at |-> e.at, cons |-> cons]]
  /\ UNCHANGED <<solveVars, logVars, chan, genVars, newtonVars, thetaVars, withVars, integralVars, lp, pt, op>>

\* the residuals: the target is one of its arguments or not (lines 45-70) and,
\* when it is, its Jacobian contains the target or not (lines 128-129)
Residuals == {r \in [found : BOOLEAN, linear : BOOLEAN] : r.found \/ r.linear}

\* the calls of solve_linear: constrain is None or a float vector
LinearCalls ==
  {[NoLinear EXCEPT !.pc = "called", !.constrain = c, !.hastarget = h] :
     c \in {c \in Constrains : c.kind # "bool"}, h \in BOOLEAN}

\* newton(...).solve(tol, maxiter), a plain loop over newton(...), or
\* solve_linear(...)
InitNewton ==
  /\ InitSolveState
  /\ gseq = <<>>
  /\ gpos = 0
  /\ gpy = FALSE
  /\ residual \in Residuals
  /\ nw = NwCreated
  /\ NoTheta
  /\ NoWith
  /\ NoIntegral /\ lp = NoLog
  /\ pt = NoPseudo
  /\ op = NoOptimize
  /\ \/ /\ \/ spc = "start" /\ tol \in Tols /\ maxiter \in {Num(MaxIterBound - 1), PosInf}
           \/ spc = "idle" /\ tol = Num(0) /\ maxiter = PosInf
        /\ nargs \in NewtonArgs
        /\ heap = IF nargs.lhs0 = 0 THEN <<>> ELSE <<CallerLhs0>>
        /\ sl = NoLinear
     \/ /\ spc = "none" /\ tol = Num(0) /\ maxiter = PosInf
        /\ nargs = NoArgs
        /\ heap = <<>>
        /\ sl \in LinearCalls

NextNewton ==
  \/ SolveStart \/ SolveFirstReturn \/ SolveLoopReturn \/ IterNext
  \/ NewtonStart \/ NewtonLinearReturn \/ NewtonStep \/ NewtonEval \/ NewtonDecide
  \/ SolveLinear

SpecNewton == InitNewton /\ [][NextNewton]_vars

\* ---------------------------------------------------- a generic generator

\* the generator is resumed: it yields its next item, or is exhausted
GenNext ==
  /\ chan.kind = "call"
  /\ IF gpos < Len(gseq)
     THEN /\ chan' = (IF gpy THEN YieldPy(gseq[gpos + 1]) ELSE Yield(gseq[gpos + 1]))
          /\ gpos' = gpos + 1
     ELSE /\ chan' = Stop
          /\ gpos' = gpos
  /\ UNCHANGED <<solveVars, logVars, gseq, gpy, heap, newtonVars, thetaVars, withVars, sl, integralVars, lp, pt, op>>

\* the sequences of (iterate, norm) pairs of length at most MaxLen; the
\* iterate of pair i is i
PairSeqs ==
  UNION {{[i \in 1..n |-> <<i, f[i]>>] : f \in [1..n -> NormVals]} : n \in 0..MaxLen}

\* solve(gen, tol, maxiter) on a generator of pairs
InitSolve ==
  /\ InitSolveState
  /\ spc = "start"
  /\ heap = <<>>
  /\ residual = [found |-> TRUE, linear |-> TRUE]
  /\ nargs = NoArgs
  /\ nw = NwCreated
  /\ NoTheta
  /\ NoWith
  /\ NoIntegral /\ lp = NoLog
  /\ pt = NoPseudo
  /\ op = NoOptimize
  /\ sl = NoLinear
  /\ tol \in Tols
  /\ maxiter \in MaxIters
  /\ gseq \in PairSeqs
  /\ gpos = 0
  /\ gpy \in BOOLEAN

NextSolve == SolveStart \/ SolveFirstReturn \/ SolveLoopReturn \/ GenNext

SpecSolve == InitSolve /\ [][NextSolve]_vars

\* -------------------------------------------------------------- withsolve

\* lines 264 and 389: the entry points decorated with @withsolve; line 453:
\* thetamethod is not
Decorated == {"newton", "pseudotime"}
HasSolve(e) == e \in Decorated
ErrNoSolve == "AttributeError: 'generator' object has no attribute 'solve'"

\* a solve method that drops maxiter
WrapperSolveArgsNoMaxiter(w) == [w EXCEPT !.maxiter = PosInf]

\* lines 259-260: solve(self.iter, *args, **kwargs)
WrapperSolveArgs(w) == w

\* a call of solve(gen, t, m): a fresh frame
StartSolve(t, m) ==
  /\ spc' = "start"
  /\ tol' = t
  /\ maxiter' = m
  /\ lhs' = 0
  /\ resnorm' = NaN
  /\ resnorm0' = NaN
  /\ inewton' = 0
  /\ outcome' = "none"
  /\ retval' = 0
  /\ ndrawn' = 0
  /\ pynum' = <<FALSE, FALSE>>
  /\ chan' = Idle

\* obj.solve(tol, maxiter) on the object the entry point returned
WrapperSolve ==
  /\ phase = 1
  /\ spc = "idle"
  /\ IF HasSolve(entry)
       THEN StartSolve(WrapperSolveArgs(wargs).tol, WrapperSolveArgs(wargs).maxiter)
       ELSE /\ spc' = "done"
            /\ outcome' = ErrNoSolve
            /\ UNCHANGED <<tol, maxiter, lhs, resnorm, resnorm0, inewton, retval, ndrawn, pynum, chan>>
  /\ UNCHANGED <<logVars, genVars, heap, newtonVars, thetaVars, withVars, sl, integralVars, lp, pt, op>>

\* solve(iter(obj), tol, maxiter) on the object of a second, identical call
\* (line 257: iter(obj) is the generator itself)
DirectSolve ==
  /\ phase = 1
  /\ spc = "done"
  /\ first' = [outcome |-> outcome, retval |-> retval, ndrawn |-> ndrawn]
  /\ phase' = 2
  /\ gpos' = 0
  /\ StartSolve(wargs.tol, wargs.maxiter)
  /\ UNCHANGED <<logVars, gseq, gpy, heap, newtonVars, thetaVars, entry, wargs, sl, integralVars, lp, pt, op>>

\* the states thetamethod yields are vectors, not pairs
VectorSeqs ==
  UNION {{[i \in 1..n |-> [j \in Dofs |-> f[i]]] : f \in [1..n -> FinNorms]} : n \in 0..MaxLen}

InitWith ==
  /\ InitSolveState
  /\ spc = "idle"
  /\ tol = Num(0)
  /\ maxiter = PosInf
  /\ heap = <<>>
  /\ residual = [found |-> TRUE, linear |-> TRUE]
  /\ nargs = NoArgs
  /\ nw = NwCreated
  /\ NoTheta
  /\ sl = NoLinear
  /\ NoIntegral /\ lp = NoLog
  /\ pt = NoPseudo
  /\ op = NoOptimize
  /\ entry \in Decorated \cup {"thetamethod"}
  /\ wargs \in [tol : Tols, maxiter : MaxIters]
  /\ phase = 1
  /\ first = NoResult
  /\ gseq \in IF HasSolve(entry) THEN PairSeqs ELSE VectorSeqs
  /\ gpos = 0
  /\ gpy \in BOOLEAN

NextWith ==
  \/ WrapperSolve \/ DirectSolve
  \/ SolveStart \/ SolveFirstReturn \/ SolveLoopReturn \/ GenNext

SpecWith == InitWith /\ [][NextWith]_vars

\* ------------------------------------------------------------ thetamethod

ErrTarget0InArguments == "AssertionError: target0 should not be defined in arguments"

\* a timestep that starts from the initial condition again
ThetaNewtonArgsFromLhs0(a, l) ==
  [lhs0 |-> a.lhs0, constrain |-> a.constrain, nrelax |-> a.nrelax, minrelax |-> Float(1, 10),
   maxrelax |-> Float(7, 10), rebound |-> Float(7, 5), hastarget |-> FALSE, prev |-> l]

\* line 499: the arguments of the newton call of a timestep that starts at l
ThetaNewtonArgs(a, l) ==
  [lhs0 |-> l, constrain |-> a.constrain, nrelax |-> a.nrelax, minrelax |-> Float(1, 10),
   maxrelax |-> Float(7, 10), rebound |-> Float(7, 5), hastarget |-> FALSE, prev |-> l]

\* line 499: what the generator does with the outcome of .solve(tol=tol)
ThetaAfterSolve(o, r) == IF o = "returned" THEN Yield(r) ELSE Raise(o)

\* the loop over thetamethod(...) draws the next state
ThetaDraw ==
  /\ th.pc # "none"
  /\ tchan.kind \in {"idle", "yield"}
  /\ tchan' = Call
  /\ UNCHANGED <<solveVars, logVars, chan, genVars, heap, newtonVars, targs, th, withVars, sl, integralVars, lp, pt, op>>

\* lines 488-498: from the first next() to the first yield
ThetaStart ==
  /\ tchan.kind = "call"
  /\ th.pc = "created"
  /\ IF targs.hastarget
       THEN th' = [th EXCEPT !.pc = "raised"] /\ tchan' = Raise(ErrTargetInArguments)
     ELSE IF targs.target0 /\ targs.hastarget0
       THEN th' = [th EXCEPT !.pc = "raised"] /\ tchan' = Raise(ErrTarget0InArguments)
     ELSE /\ th' = [th EXCEPT !.pc = "suspended", !.lhs = targs.lhs0,
                              !.yielded = Append(@, targs.lhs0)]
          /\ tchan' = Yield(targs.lhs0)
  /\ UNCHANGED <<solveVars, logVars, chan, genVars, heap, newtonVars, targs, withVars, sl, integralVars, lp, pt, op>>

\* line 499: the generator is resumed, and calls newton(...).solve(tol=tol)
ThetaStep ==
  /\ tchan.kind = "call"
  /\ th.pc = "suspended"
  /\ Len(th.yielded) <= MaxSteps
  /\ th' = [th EXCEPT !.pc = "running"]
  /\ nargs' = ThetaNewtonArgs(targs, th.lhs)
  /\ nw' = NwCreated
  /\ StartSolve(targs.tol, PosInf)
  /\ UNCHANGED <<logVars, genVars, heap, residual, targs, tchan, withVars, sl, integralVars, lp, pt, op>>

\* lines 499 and 497: the solve is over; its iterate is the next state, its
\* error leaves the generator
ThetaStepReturn ==
  /\ th.pc = "running"
  /\ spc = "done"
  /\ tchan' = ThetaAfterSolve(outcome, retval)
  /\ th' = IF outcome = "returned"
            THEN [th EXCEPT !.pc = "suspended", !.lhs = retval, !.yielded = Append(@, retval)]
            ELSE [th EXCEPT !.pc = "raised"]
  /\ UNCHANGED <<solveVars, logVars, chan, genVars, heap, newtonVars, targs, withVars, sl, integralVars, lp, pt, op>>

\* the calls of thetamethod
ThetaArgs ==
  {[lhs0 |-> 1, constrain |-> c, tol |-> t, nrelax |-> Num(0), hastarget |-> h,
    target0 |-> g, hastarget0 |-> g /\ h0] :
     c \in {[kind |-> "none", vec |-> <<>>], [kind |-> "bool", vec |-> FixedFirst(1)]},
     t \in {Num(-1), Num(TolBound)}, h \in BOOLEAN, g \in BOOLEAN, h0 \in BOOLEAN}

InitTheta ==
  /\ InitSolveState
  /\ spc = "none"
  /\ tol = Num(0)
  /\ maxiter = PosInf
  /\ gseq = <<>>
  /\ gpos = 0
  /\ gpy = FALSE
  /\ heap = <<CallerLhs0>>
  /\ residual \in Residuals
  /\ nargs = NoArgs
  /\ nw = NwCreated
  /\ NoWith
  /\ NoIntegral /\ lp = NoLog
  /\ pt = NoPseudo
  /\ op = NoOptimize
  /\ sl = NoLinear
  /\ targs \in ThetaArgs
  /\ th = ThCreated
  /\ tchan = Idle

\* the generator of a linear problem is never resumed here: solve takes its
\* pair (x, 0) and returns x, or raises at line 228 when tol < 0
NextTheta ==
  \/ ThetaDraw \/ ThetaStart \/ ThetaStep \/ ThetaStepReturn
  \/ SolveStart \/ SolveFirstReturn \/ SolveLoopReturn
  \/ NewtonStart \/ NewtonStep \/ NewtonEval \/ NewtonDecide

SpecTheta == InitTheta /\ [][NextTheta]_vars

\* --------------------------------------------------------------- Integral

\* the (domain, ischeme) keys
IKeys == 1..NKeys

\* the Arguments an integrand can hold, in the order a traversal meets them
AllArgs ==
  << [name |-> "lhs", shape |-> <<2>>], [name |-> "lhs", shape |-> <<3>>],
     [name |-> "t0", shape |-> <<2>>], [name |-> "m", shape |-> <<2, 2>>] >>
ArgIds == 1..Len(AllArgs)
ArgNames == {AllArgs[a].name : a \in ArgIds} \cup {"absent"}
NoDeg == [a \in ArgIds |-> 0]

\* an integrand (a nutils function array): its shape, one value per index of
\* its first axis, and the degree in which it holds each Argument
NRows(shape) == IF shape = <<>> THEN 1 ELSE shape[1]
\* shape[1:]
Tail0(shape) == IF shape = <<>> THEN <<>> ELSE Tail(shape)
Fn(shape, v, deg) == [shape |-> shape, rows |-> [i \in 1..NRows(shape) |-> v], deg |-> deg]
FZeros(shape) == Fn(shape, Num(0), NoDeg)

MaxOf(m, n) == IF m >= n THEN m ELSE n

FAdd(f, g) ==
  [shape |-> f.shape, rows |-> [i \in 1..Len(f.rows) |-> Add(f.rows[i], g.rows[i])],
   deg |-> [a \in ArgIds |-> MaxOf(f.deg[a], g.deg[a])]]

FMul(f, c) == [f EXCEPT !.rows = [i \in 1..Len(f.rows) |-> Mul(f.rows[i], c)]]

RECURSIVE FConcatenate(_)
FConcatenate(fs) ==
  IF Len(fs) = 1 THEN fs[1]
  ELSE LET r == FConcatenate(Tail(fs))
       IN  [shape |-> <<fs[1].shape[1] + r.shape[1]>> \o Tail(fs[1].shape),
            rows |-> fs[1].rows \o r.rows,
            deg |-> [a \in ArgIds |-> MaxOf(fs[1].deg[a], r.deg[a])]]

FDerivative(f, a) ==
  [shape |-> f.shape \o AllArgs[a].shape,
   rows |-> [i \in 1..NRows(f.shape \o AllArgs[a].shape) |->
               Mul(Num(f.deg[a]), f.rows[IF f.shape = <<>> THEN 1 ELSE i])],
   deg |-> [f.deg EXCEPT ![a] = IF @ > 0 THEN @ - 1 ELSE 0]]

\* replace_arguments(f, {name of a: the Argument b})
FReplace(f, a, b) ==
  IF a = b THEN f
  ELSE [f EXCEPT !.deg = [f.deg EXCEPT ![a] = 0, ![b] = f.deg[b] + f.deg[a]]]

\* `target in integrand.serialized[0]`
FContains(f, a) == f.deg[a] > 0

\* the first Argument called name that a traversal of f meets (0: none)
FFind(f, name) ==
  LET hits == {a \in ArgIds : f.deg[a] > 0 /\ AllArgs[a].name = name}
  IN  IF hits = {} THEN 0 ELSE CHOOSE a \in hits: \A b \in hits: a <= b

\* an array: what the integration of an integrand over a domain gives
Integrate(k, f) ==
  [shape |-> f.shape, vals |-> [i \in 1..Len(f.rows) |-> Mul(Num(k + 1), f.rows[i])]]

\* numpy.sum(values, axis=0): 0.0 for an empty list
RECURSIVE NpSum(_)
NpSum(values) ==
  IF values = <<>> THEN [shape |-> <<>>, vals |-> <<Num(0)>>]
  ELSE IF Len(values) = 1 THEN values[1]
  ELSE LET r == NpSum(Tail(values))
       IN  [shape |-> values[1].shape,
            vals |-> [i \in 1..Len(values[1].vals) |-> Add(values[1].vals[i], r.vals[i])]]

\* an Integral is a dict with a shape: its entries in insertion order
IKeysOf(x) == {x.entries[i].key : i \in 1..Len(x.entries)}
IAt(x, k) == x.entries[CHOOSE i \in 1..Len(x.entries): x.entries[i].key = k].f
\* integral.get(domain_ischeme, default)
IGet(x, k, default) == IF k \in IKeysOf(x) THEN IAt(x, k) ELSE default
\* the dict as a mapping, whatever the order of insertion
AsMap(x) == [shape |-> x.shape, items |-> {<<x.entries[i].key, x.entries[i].f>> : i \in 1..Len(x.entries)}]

\* lines 80-84
IEmpty(shape) == [shape |-> shape, entries |-> <<>>]

\* lines 76-78
IInit(f, k) == [shape |-> f.shape, entries |-> <<[key |-> k, f |-> f]>>]

\* the orders in which the elements of a set can be met
Orders(S) ==
  {p \in [1..Cardinality(S) -> S] : \A i, j \in 1..Cardinality(S): p[i] = p[j] => i = j}

UnionKeys(xs) == UNION {IKeysOf(xs[j]) : j \in 1..Len(xs)}


\* a variant that drops an entry of other whose key self lacks
AddIntoDropsNew(add, es) ==
  IF es = <<>> THEN add
  ELSE [add EXCEPT !.entries =
          [i \in 1..Len(add.entries) |->
             IF \E n \in 1..Len(es): es[n].key = add.entries[i].key
               THEN [key |-> add.entries[i].key,
                     f |-> FAdd(add.entries[i].f,
                                es[CHOOSE n \in 1..Len(es): es[n].key = add.entries[i].key].f)]
               ELSE add.entries[i]]]

\* lines 131-140, after the assert: add.update(self), then other's entries
RECURSIVE AddInto(_, _)
AddInto(add, es) ==
  IF es = <<>> THEN add
  ELSE LET k == es[1].key
           i == CHOOSE i \in 1..Len(add.entries): add.entries[i].key = k
       IN  AddInto(IF k \in IKeysOf(add)
                     THEN [add EXCEPT !.entries[i].f = FAdd(@, es[1].f)]
                     ELSE [add EXCEPT !.entries = Append(@, es[1])],
                   Tail(es))
\* a variant that, like dict.update, lets other's entry replace self's
IAddUpdates(x, y) ==
  [shape |-> x.shape,
   entries |-> [i \in 1..Len(x.entries) |->
                  IF x.entries[i].key \in IKeysOf(y)
                    THEN [key |-> x.entries[i].key, f |-> IAt(y, x.entries[i].key)]
                    ELSE x.entries[i]]
               \o SelectSeq(y.entries, LAMBDA e: e.key \notin IKeysOf(x))]

IAdd(x, y) == AddInto([shape |-> x.shape, entries |-> x.entries], y.entries)

\* lines 148-153, for a number
IMul(x, c) ==
  [shape |-> x.shape,
   entries |-> [i \in 1..Len(x.entries) |-> [key |-> x.entries[i].key, f |-> FMul(x.entries[i].f, c)]]]

\* lines 142-146
INeg(x) == IMul(x, Num(-1))
ISub(x, y) == IAdd(x, INeg(y))

\* a variant that keeps the declared shape of self
IDerivativeSameShape(x, a) ==
  [shape |-> x.shape,
   entries |-> [i \in 1..Len(x.entries) |->
                  [key |-> x.entries[i].key, f |-> FDerivative(x.entries[i].f, a)]]]

\* lines 116-120, for the Argument found
IDerivative(x, a) ==
  [shape |-> x.shape \o AllArgs[a].shape,
   entries |-> [i \in 1..Len(x.entries) |->
                  [key |-> x.entries[i].key, f |-> FDerivative(x.entries[i].f, a)]]]

\* lines 122-126
IReplace(x, a, b) ==
  [shape |-> x.shape,
   entries |-> [i \in 1..Len(x.entries) |->
                  [key |-> x.entries[i].key, f |-> FReplace(x.entries[i].f, a, b)]]]

\* lines 128-129
IContains(x, a) == \E i \in 1..Len(x.entries): FContains(x.entries[i].f, a)

\* a variant that fills a missing entry with ones
IntegrandAtOnes(x, k) == IGet(x, k, Fn(x.shape, Num(1), NoDeg))

\* the integrand an integral contributes at a key: integral.get(key, zeros(shape))
IntegrandAt(x, k) == IGet(x, k, FZeros(x.shape))

\* a variant that declares the leading dimension of the first input
IConcatenateFirstDim(xs, order) ==
  [shape |-> xs[1].shape,
   entries |-> [i \in 1..Len(order) |->
                  [key |-> order[i],
                   f |-> FConcatenate([j \in 1..Len(xs) |-> IntegrandAt(xs[j], order[i])])]]]

\* lines 88-93, the keys met in the given order
IConcatenate(xs, order) ==
  [shape |-> <<NRows(FConcatenate([j \in 1..Len(xs) |-> FZeros(xs[j].shape)]).shape)>>
               \o Tail(xs[1].shape),
   entries |-> [i \in 1..Len(order) |->
                  [key |-> order[i],
                   f |-> FConcatenate([j \in 1..Len(xs) |-> IntegrandAt(xs[j], order[i])])]]]

\* a variant that integrates integral by integral, entry by entry
RECURSIVE OneByOne(_, _)
OneByOne(xs, j) ==
  IF j > Len(xs) THEN <<>>
  ELSE [i \in 1..Len(xs[j].entries) |->
          [key |-> xs[j].entries[i].key,
           integrands |-> [n \in 1..Len(xs) |->
                             IF n = j THEN xs[j].entries[i].f ELSE FZeros(xs[n].shape)]]]
       \o OneByOne(xs, j + 1)
MultievalCallsOneByOne(xs, order) == OneByOne(xs, 1)

\* lines 101-104: the calls of domain.integrate, the keys met in the given order
MultievalCalls(xs, order) ==
  [i \in 1..Len(order) |->
     [key |-> order[i], integrands |-> [j \in 1..Len(xs) |-> IntegrandAt(xs[j], order[i])]]]

\* line 105: numpy.sum(retvals, axis=0) over the calls' lists of arrays
Multieval(xs, order) ==
  LET calls == MultievalCalls(xs, order)
  IN  IF calls = <<>> THEN NpSum(<<>>)
      ELSE [j \in 1..Len(xs) |->
              NpSum([i \in 1..Len(calls) |-> Integrate(calls[i].key, calls[i].integrands[j])])]

\* lines 107-111
EvalCalls(x) ==
  [i \in 1..Len(x.entries) |-> [key |-> x.entries[i].key, integrands |-> <<x.entries[i].f>>]]
Eval(x) == NpSum([i \in 1..Len(x.entries) |-> Integrate(x.entries[i].key, x.entries[i].f)])

\* lines 57-62: Integrals give their integrands in the order of their entries
RECURSIVE Flatten(_)
Flatten(xs) ==
  IF xs = <<>> THEN <<>>
  ELSE [i \in 1..Len(xs[1].entries) |-> xs[1].entries[i].f] \o Flatten(Tail(xs))

\* lines 64-69: the first match raises Found and is returned; 0: ValueError
RECURSIVE FindArgument(_, _)
FindArgument(name, fs) ==
  IF fs = <<>> THEN 0
  ELSE IF FFind(fs[1], name) # 0 THEN FFind(fs[1], name)
  ELSE FindArgument(name, Tail(fs))

ErrAssertion == "AssertionError"
ErrIndex == "IndexError"
ErrValue == "ValueError"
ErrType == "TypeError"

\* the integrands a caller makes integrals of
Deg(a, n) == [NoDeg EXCEPT ![a] = n]
BaseIntegrands ==
  { Fn(<<2>>, Num(1), Deg(1, 2)), Fn(<<2>>, Num(2), [NoDeg EXCEPT ![2] = 1, ![3] = 1]),
    Fn(<<1, 2>>, Num(1), Deg(4, 1)), Fn(<<>>, Num(1), NoDeg) }
BaseShapes == {f.shape : f \in BaseIntegrands}
\* the numbers and the non-number an integral is multiplied with or divided by
Others == {[number |-> TRUE, val |-> Num(0)], [number |-> TRUE, val |-> Num(2)],
           [number |-> FALSE, val |-> Num(0)]}
\* one or two operands out of the integrals built so far
Operands == {<<i>> : i \in 1..Len(pool)} \cup {<<i, j>> : i, j \in 1..Len(pool)}

\* a variant that also writes the result into the first operand
StoreInSelf(p, self, r) == Append(IF self = 0 THEN p ELSE [p EXCEPT ![self] = r], r)

\* a combinator returns a new container
StoreResult(p, self, r) == Append(p, r)

CanBuild == Len(pool) < MaxPool
CanObserve == last.nobs < MaxObs

Returns(opname, args, aux, r) ==
  /\ CanBuild
  /\ pool' = StoreResult(pool, IF args = <<>> THEN 0 ELSE args[1], r)
  /\ last' = [NoLast EXCEPT !.op = opname, !.args = args, !.aux = aux, !.result = Len(pool) + 1]

Raises(opname, args, aux, e) ==
  /\ CanObserve
  /\ pool' = pool
  /\ last' = [NoLast EXCEPT !.op = opname, !.args = args, !.aux = aux, !.err = e,
                            !.nobs = last.nobs + 1]

Gives(opname, args, aux, v, calls) ==
  /\ CanObserve
  /\ pool' = pool
  /\ last' = [NoLast EXCEPT !.op = opname, !.args = args, !.aux = aux, !.value = v,
                            !.calls = calls, !.nobs = last.nobs + 1]

outsideIntegral ==
  <<solveVars, logVars, chan, genVars, heap, newtonVars, thetaVars, withVars, sl, lp, pt, op>>

\* Integral(integrand, domain, ischeme)
IntegralInit ==
  /\ CanBuild
  /\ \E f \in BaseIntegrands, k \in IKeys: Returns("init", <<>>, <<k>>, IInit(f, k))
  /\ UNCHANGED outsideIntegral

\* Integral.empty(shape)
IntegralEmpty ==
  /\ CanBuild
  /\ \E shape \in BaseShapes: Returns("empty", <<>>, shape, IEmpty(shape))
  /\ UNCHANGED outsideIntegral

\* Integral.concatenate(integrals)
IntegralConcatenate ==
  /\ (CanBuild \/ CanObserve)
  /\ \E args \in Operands:
       LET xs == [j \in 1..Len(args) |-> pool[args[j]]]
       IN  IF \E j \in 2..Len(xs): Tail0(xs[j].shape) # Tail0(xs[1].shape)
             THEN Raises("concatenate", args, <<>>, ErrAssertion)
           ELSE IF \E j \in 1..Len(xs): xs[j].shape = <<>>
             THEN Raises("concatenate", args, <<>>, ErrIndex)
           ELSE \E order \in Orders(UnionKeys(xs)):
                  Returns("concatenate", args, order, IConcatenate(xs, order))
  /\ UNCHANGED outsideIntegral

\* Integral.multieval(*integrals)
IntegralMultieval ==
  /\ CanObserve
  /\ \E args \in Operands:
       LET xs == [j \in 1..Len(args) |-> pool[args[j]]]
       IN  \E order \in Orders(UnionKeys(xs)):
             Gives("multieval", args, order, Multieval(xs, order), MultievalCalls(xs, order))
  /\ UNCHANGED outsideIntegral

\* integral.eval()
IntegralEval ==
  /\ CanObserve
  /\ \E i \in 1..Len(pool): Gives("eval", <<i>>, <<>>, Eval(pool[i]), EvalCalls(pool[i]))
  /\ UNCHANGED outsideIntegral

\* integral.derivative(target)
IntegralDerivative ==
  /\ (CanBuild \/ CanObserve)
  /\ \E i \in 1..Len(pool), name \in ArgNames:
       LET a == FindArgument(name, Flatten(<<pool[i]>>))
       IN  IF a = 0 THEN Raises("derivative", <<i>>, name, ErrValue)
           ELSE IF Len(AllArgs[a].shape) # 1 THEN Raises("derivative", <<i>>, name, ErrAssertion)
           ELSE Returns("derivative", <<i>>, a, IDerivative(pool[i], a))
  /\ UNCHANGED outsideIntegral

\* integral.replace({name of a: the Argument b})
IntegralReplace ==
  /\ CanBuild
  /\ \E i \in 1..Len(pool), a, b \in ArgIds:
       /\ a # b /\ AllArgs[a].shape = AllArgs[b].shape
       /\ Returns("replace", <<i>>, <<a, b>>, IReplace(pool[i], a, b))
  /\ UNCHANGED outsideIntegral

\* integral.contains(target)
IntegralContains ==
  /\ CanObserve
  /\ \E i \in 1..Len(pool), a \in ArgIds:
       Gives("contains", <<i>>, a, IContains(pool[i], a), <<>>)
  /\ UNCHANGED outsideIntegral

\* self + other
IntegralAdd ==
  /\ (CanBuild \/ CanObserve)
  /\ \E i, j \in 1..Len(pool):
       IF pool[i].shape # pool[j].shape THEN Raises("add", <<i, j>>, <<>>, ErrAssertion)
       ELSE Returns("add", <<i, j>>, <<>>, IAdd(pool[i], pool[j]))
  /\ UNCHANGED outsideIntegral

\* -self
IntegralNeg ==
  /\ CanBuild
  /\ \E i \in 1..Len(pool): Returns("neg", <<i>>, <<>>, INeg(pool[i]))
  /\ UNCHANGED outsideIntegral

\* self - other
IntegralSub ==
  /\ (CanBuild \/ CanObserve)
  /\ \E i, j \in 1..Len(pool):
       IF pool[i].shape # pool[j].shape THEN Raises("sub", <<i, j>>, <<>>, ErrAssertion)
       ELSE Returns("sub", <<i, j>>, <<>>, ISub(pool[i], pool[j]))
  /\ UNCHANGED outsideIntegral

\* self * other and other * self
IntegralMul ==
  /\ (CanBuild \/ CanObserve)
  /\ \E i \in 1..Len(pool), other \in Others:
       IF ~other.number THEN Raises("mul", <<i>>, other, ErrType)
       ELSE Returns("mul", <<i>>, other, IMul(pool[i], other.val))
  /\ UNCHANGED outsideIntegral

\* self / other
IntegralTruediv ==
  /\ (CanBuild \/ CanObserve)
  /\ \E i \in 1..Len(pool), other \in Others:
       IF ~other.number THEN Raises("truediv", <<i>>, other, ErrType)
       ELSE IF IsZero(other.val) THEN Raises("truediv", <<i>>, other, ErrZeroDivision)
       ELSE Returns("truediv", <<i>>, other, IMul(pool[i], Recip(other.val)))
  /\ UNCHANGED outsideIntegral

\* _find_argument(name, *funcs)
FindArgumentCall ==
  /\ CanObserve
  /\ \E args \in Operands, name \in ArgNames:
       LET a == FindArgument(name, Flatten([j \in 1..Len(args) |-> pool[args[j]]]))
       IN  IF a = 0 THEN Raises("find", args, name, ErrValue)
           ELSE Gives("find", args, name, a, <<>>)
  /\ UNCHANGED outsideIntegral

InitIntegral ==
  /\ InitSolveState
  /\ spc = "none" /\ tol = Num(0) /\ maxiter = PosInf
  /\ gseq = <<>> /\ gpos = 0 /\ gpy = FALSE
  /\ heap = <<>>
  /\ nargs = NoArgs /\ nw = [NwCreated EXCEPT !.pc = "none"]
  /\ residual = [found |-> TRUE, linear |-> TRUE]
  /\ NoTheta /\ NoWith /\ sl = NoLinear
  /\ NoIntegral /\ lp = NoLog /\ pt = NoPseudo /\ op = NoOptimize

NextIntegral ==
  \/ IntegralInit
  \/ IntegralEmpty
  \/ IntegralConcatenate
  \/ IntegralMultieval
  \/ IntegralEval
  \/ IntegralDerivative
  \/ IntegralReplace
  \/ IntegralContains
  \/ IntegralAdd
  \/ IntegralNeg
  \/ IntegralSub
  \/ IntegralMul
  \/ IntegralTruediv
  \/ FindArgumentCall

SpecIntegral == InitIntegral /\ [][NextIntegral]_vars

\* ------------------------------------------------------------- pseudotime

\* a variant that lets every arguments map pass
RejectsNothing(a) == FALSE

\* lines 423, 536: target in (arguments or {})
Rejects(a) == a.hastarget

outsidePseudo ==
  <<solveVars, ctx, genVars, newtonVars, thetaVars, withVars, sl, integralVars, lp, op>>

PseudoRaises(e) ==
  /\ pt' = [pt EXCEPT !.pc = "raised"]
  /\ chan' = Raise(e)
  /\ UNCHANGED <<heap, logs>>

\* a variant that keeps the timestep as it is
ThisTimestepKept(timestep, norm0, norm) == timestep

\* line 447: the timestep of the next evaluation
ThisTimestep(timestep, norm0, norm) == Mul(timestep, Div(norm0, norm))

\* the first draw: lines 423-445
PseudoStart ==
  /\ chan.kind = "call"
  /\ pt.pc = "created"
  /\ IF Rejects(pt) THEN PseudoRaises(ErrTargetInArguments)
     ELSE IF ~residual.found \/ ~pt.inertia THEN PseudoRaises(ErrTargetNotFound)
     ELSE LET lhs0n == NormLhs0(pt, heap)
              mask == NormConstrain(pt)
              ref == Len(heap) + 1
          IN  \E e \in Evals(lhs0n, mask):
                /\ heap' = Append(heap, lhs0n)
                /\ pt' = [pt EXCEPT !.pc = "suspended", !.mask = mask, !.lhs = ref, !.res = e,
                                    !.resnorm = e.norm, !.resnorm0 = e.norm,
                                    !.nevals = @ + 1, !.nyields = @ + 1]
                /\ logs' = logs
                /\ chan' = Yield(<<ref, e.norm>>)
  /\ UNCHANGED outsidePseudo

\* a later draw: lines 446-450, then 445
PseudoStep ==
  /\ chan.kind = "call"
  /\ pt.pc = "suspended"
  /\ pt.nyields <= MaxOuter
  /\ \E x \in MatSolve(ZCons(pt.mask)):
       LET newlhs == VSub(heap[pt.lhs], x)
       IN  \E e \in Evals(newlhs, pt.mask):
             /\ heap' = [heap EXCEPT ![pt.lhs] = newlhs]
             /\ pt' = [pt EXCEPT !.thistimestep = ThisTimestep(pt.timestep, pt.resnorm0, pt.resnorm),
                                 !.prevnorm = pt.resnorm,
                                 !.prevstep = IF pt.nyields = 1 THEN pt.timestep
                                              ELSE pt.thistimestep,
                                 !.res = e, !.resnorm = e.norm, !.nevals = @ + 1,
                                 !.nsolves = @ + 1, !.nyields = @ + 1]
             /\ logs' = logs \cup {<<"info", "timestep">>}
             /\ chan' = Yield(<<pt.lhs, e.norm>>)
  /\ UNCHANGED outsidePseudo

\* the calls of pseudotime: lhs0 is the caller's array
PseudoCalls ==
  {[NoPseudo EXCEPT !.pc = "created", !.lhs0 = 1, !.constrain = c, !.hastarget = h,
                    !.inertia = n, !.timestep = Num(2)] :
     c \in {[kind |-> "none", vec |-> <<>>],
            [kind |-> "float", vec |-> [i \in Dofs |-> IF i <= 1 THEN Num(5) ELSE NaN]]},
     h \in BOOLEAN, n \in BOOLEAN}

\* --------------------------------------------------------------- optimize

ErrNotScalar == "AssertionError"
ErrNoNewtontol == "AssertionError: newton tolerance newtontol must be specified for nonlinear problems"
ErrOptimizationFailed == "AssertionError: optimization failed (forgot droptol?)"

\* a variant that refines every step with newton
NeedsNewtonAlways(r) == TRUE

\* line 557: jacobian.contains(arg)
NeedsNewton(r) == ~r.linear

\* line 553: no dof is dropped without droptol, else those whose row of the
\* jacobian has no support
NanDofs(droptol) == IF droptol THEN [Dofs -> BOOLEAN] ELSE {[i \in Dofs |-> FALSE]}

\* line 565: lhs[nandofs] = numpy.nan
DropNan(v, nandofs) == [i \in Dofs |-> IF nandofs[i] THEN NaN ELSE v[i]]

\* line 563: a free entry of lhs is NaN
HasFreeNan(v, fixed) == \E i \in Dofs: ~fixed[i] /\ IsNaN(v[i])

outsideOptimize == <<genVars, residual, thetaVars, withVars, sl, integralVars, lp, pt>>

\* the call ends here, with a result or an exception
OptimizeEnds(o, h, lg) ==
  /\ op' = [o EXCEPT !.pc = "done"]
  /\ heap' = h
  /\ logs' = lg
  /\ UNCHANGED <<solveVars, ctx, chan, nargs, nw>>

\* lines 536-561: to the return of the linear case or the call of newton
OptimizeStart ==
  /\ op.pc = "called"
  /\ IF Rejects(op) THEN OptimizeEnds([op EXCEPT !.err = ErrTargetInArguments], heap, logs)
     ELSE IF ~op.scalar THEN OptimizeEnds([op EXCEPT !.err = ErrNotScalar], heap, logs)
     ELSE IF ~residual.found THEN OptimizeEnds([op EXCEPT !.err = ErrTargetNotFound], heap, logs)
     ELSE \E nandofs \in NanDofs(op.droptol):
            LET lhs0n == NormLhs0(op, heap)
                fixed == [i \in Dofs |-> NormConstrain(op)[i] \/ nandofs[i]]
                ref == Len(heap) + 1
            IN  \E x \in MatSolve(ZCons(fixed)):
                  LET step == VSub(lhs0n, x)
                      o == [op EXCEPT !.nandofs = nandofs, !.fixed = fixed, !.step = step,
                                      !.nevals = 1, !.nsolves = 1]
                  IN  IF ~NeedsNewton(residual)
                        THEN IF HasFreeNan(step, fixed)
                               THEN OptimizeEnds([o EXCEPT !.err = ErrOptimizationFailed],
                                                 Append(heap, step), logs)
                               ELSE OptimizeEnds([o EXCEPT !.result = ref],
                                                 Append(heap, DropNan(step, nandofs)),
                                                 logs \cup {<<"info", "optimum">>})
                      ELSE IF ~op.newtontol.given
                        THEN OptimizeEnds([o EXCEPT !.err = ErrNoNewtontol], Append(heap, step), logs)
                      ELSE /\ op' = [o EXCEPT !.pc = "newton", !.newtons = 1]
                           /\ heap' = Append(heap, step)
                           /\ logs' = logs
                           /\ ctx' = PushContext(ctx, <<"optimize", 0>>)
                           /\ nargs' = [NoArgs EXCEPT !.lhs0 = ref,
                                                      !.constrain = [kind |-> "bool", vec |-> fixed]]
                           /\ nw' = NwCreated
                           /\ StartSolve(op.newtontol.val, PosInf)
  /\ UNCHANGED outsideOptimize

\* lines 561-566, after newton(...).solve(newtontol)
OptimizeReturn ==
  /\ op.pc = "newton"
  /\ spc = "done"
  /\ ctx' = PopContext(ctx)
  /\ IF outcome # "returned"
       THEN op' = [op EXCEPT !.pc = "done", !.err = outcome] /\ heap' = heap /\ logs' = logs
     ELSE IF HasFreeNan(heap[retval], op.fixed)
       THEN /\ op' = [op EXCEPT !.pc = "done", !.err = ErrOptimizationFailed, !.nevals = @ + 1]
            /\ heap' = heap /\ logs' = logs
     ELSE /\ op' = [op EXCEPT !.pc = "done", !.result = retval, !.nevals = @ + 1]
          /\ heap' = [heap EXCEPT ![retval] = DropNan(@, op.nandofs)]
          /\ logs' = logs \cup {<<"info", "optimum">>}
  /\ UNCHANGED <<solveVars, chan, nargs, nw, outsideOptimize>>

\* the calls of optimize
OptimizeCalls ==
  {[NoOptimize EXCEPT !.pc = "called", !.lhs0 = l, !.constrain = c, !.hastarget = h,
                      !.scalar = sc, !.droptol = d, !.newtontol = t] :
     l \in 0..1,
     c \in {[kind |-> "none", vec |-> <<>>], [kind |-> "bool", vec |-> FixedFirst(1)],
            [kind |-> "float", vec |-> [i \in Dofs |-> IF i <= 1 THEN Num(5) ELSE NaN]]},
     h \in BOOLEAN, sc \in BOOLEAN, d \in BOOLEAN,
     t \in {[given |-> FALSE, val |-> NaN], [given |-> TRUE, val |-> Num(TolBound)]}}

\* ------------------------------------- progress iterators and with-blocks

\* the builtins: range(a, b, s) with s # 0, enumerate, zip over two lists,
\* and the first n items of itertools.count(start, step)
RECURSIVE PyRange(_, _, _)
PyRange(a, b, s) ==
  IF (s > 0 /\ a >= b) \/ (s < 0 /\ a <= b) THEN <<>>
  ELSE <<a>> \o PyRange(a + s, b, s)
PyEnumerate(xs) == [i \in 1..Len(xs) |-> <<i - 1, xs[i]>>]
PyZip(xs, ys) ==
  [i \in 1..(IF Len(xs) <= Len(ys) THEN Len(xs) ELSE Len(ys)) |-> <<xs[i], ys[i]>>]
PyCount(start, step, n) == [i \in 1..n |-> start + (i - 1) * step]

\* range(*args) with one, two or three arguments
RangeOf(args) ==
  CASE Len(args) = 1 -> PyRange(0, args[1], 1)
    [] Len(args) = 2 -> PyRange(args[1], args[2], 1)
    [] OTHER -> PyRange(args[1], args[2], args[3])

\* '{:.0f}'.format((index+.5)*100./length): the nearest integer, a tie going
\* to the even one
Percent(index, length) ==
  LET n == (2 * index + 1) * 50
      q == n \div length
      r == 2 * (n % length)
  IN IF r > length \/ (r = length /\ q % 2 = 1) THEN q + 1 ELSE q

\* a call of log.range, log.iter, log.enumerate, log.zip or log.count: args
\* are the numbers of range and count, xs and ys the iterables (sized tells
\* whether len(xs) exists), length the keyword argument (0 when not given)
LogCall(kind, args, xs, ys, sized, length) ==
  [kind |-> kind, args |-> args, xs |-> xs, ys |-> ys, sized |-> sized, length |-> length]
Iterables == {<<>>, <<7>>, <<7, 8>>}
LogCalls ==
  {LogCall("range", a, <<>>, <<>>, TRUE, 0) :
     a \in {<<n>> : n \in 0..MaxItems}
           \cup {<<1, MaxItems + 1>>, <<MaxItems, 0, -1>>, <<0, MaxItems + 1, 2>>}}
  \cup {LogCall(k, <<>>, xs, <<>>, s, l) :
          k \in {"iter", "enumerate"}, xs \in Iterables, s \in BOOLEAN, l \in {0, 4}}
  \cup {LogCall("zip", <<>>, xs, ys, TRUE, 0) : xs \in Iterables \ {<<>>}, ys \in {<<>>, <<9>>}}
  \cup {LogCall("count", a, <<>>, <<>>, TRUE, 0) : a \in {<<0, 1>>, <<5, -2>>}}

\* the iterator each function hands to _logiter (lines 239, 245, 250, 255,
\* 260); of the endless count the items that a run can draw
Builtin(c) ==
  CASE c.kind = "range" -> RangeOf(c.args)
    [] c.kind = "iter" -> c.xs
    [] c.kind = "enumerate" -> PyEnumerate(c.xs)
    [] c.kind = "zip" -> PyZip(c.xs, c.ys)
    [] OTHER -> PyCount(c.args[1], c.args[2], MaxCount + 1)

\* the length each function hands to _logiter, -1 for None: len(items) for
\* range, (length or _len(iterable)) for iter and enumerate, None otherwise
LogLength(c) ==
  CASE c.kind = "range" -> Len(RangeOf(c.args))
    [] c.kind \in {"iter", "enumerate"} ->
         IF c.length # 0 THEN c.length ELSE IF c.sized THEN Len(c.xs) ELSE -1
    [] OTHER -> -1
UseItem(c) == c.kind \in {"range", "count"}

\* lines 195-197: the title of the context of one item
LogTitle(text, c, index, item) ==
  <<text, IF UseItem(c) THEN item ELSE index,
    IF LogLength(c) = -1 THEN -1 ELSE Percent(index, LogLength(c))>>

\* a variant of the loop that ends one item early
LogExhaustedEarly(src, index) == index + 1 >= Len(src)

\* line 194: the for loop ends when the iterator has no item left
LogExhausted(src, index) == index >= Len(src)

\* the frame of a generator _logiter(text, iterator, length, useitem)
LogGen(text, c) ==
  [text |-> text, call |-> c, pc |-> "new", index |-> 0, yielded |-> <<>>]
LogRuns ==
  {[gens |-> <<LogGen("p", c1), LogGen("q", c2)>>, entered |-> <<>>, nblocks |-> 0] :
     c1, c2 \in LogCalls}

\* the scopes that are open, without the one of owner w
Leave(entered, w) == SelectSeq(entered, LAMBDA e: e.owner # w)

outsideLog ==
  <<solveVars, chan, genVars, heap, newtonVars, thetaVars, withVars, sl, integralVars, pt, op>>

\* with log.context(title): entered (lines 66-72)
LogEnter ==
  /\ lp.nblocks < MaxBlocks
  /\ LET title == <<"with", lp.nblocks + 1, -1>> IN
       /\ ctx' = PushContext(ctx, title)
       /\ lp' = [lp EXCEPT !.nblocks = @ + 1,
                           !.entered = Append(@, [owner |-> NGens + lp.nblocks + 1,
                                                  title |-> title])]
  /\ UNCHANGED <<logs, outsideLog>>

\* the with-block is left, by its end or by an exception (lines 73-75)
LogExit ==
  /\ lp.nblocks > 0
  /\ ctx' = PopContext(ctx)
  /\ lp' = [lp EXCEPT !.nblocks = @ - 1, !.entered = Leave(@, NGens + lp.nblocks)]
  /\ UNCHANGED <<logs, outsideLog>>

\* next() of progress iterator g (lines 189-207): resumed inside the with
\* statement of the item before, it leaves that context, then enters the
\* context of the next item, maybe writes a progress line, and yields the
\* item; without a next item it ends
LogNext(g) ==
  /\ g \in 1..Len(lp.gens)
  /\ lp.gens[g].pc \in {"new", "inside"}
  /\ LET f == lp.gens[g]
         src == Builtin(f.call)
         c1 == IF f.pc = "inside" THEN PopContext(ctx) ELSE ctx
         e1 == IF f.pc = "inside" THEN Leave(lp.entered, g) ELSE lp.entered
     IN IF LogExhausted(src, f.index)
        THEN /\ ctx' = c1
             /\ lp' = [lp EXCEPT !.gens[g].pc = "done", !.entered = e1]
             /\ UNCHANGED logs
        ELSE /\ f.call.kind = "count" => f.index < MaxCount
             /\ LET item == src[f.index + 1]
                    title == LogTitle(f.text, f.call, f.index, item)
                IN /\ ctx' = PushContext(c1, title)
                   /\ lp' = [lp EXCEPT !.gens[g].pc = "inside",
                                       !.gens[g].index = @ + 1,
                                       !.gens[g].yielded = Append(@, item),
                                       !.entered = Append(e1, [owner |-> g, title |-> title])]
                   /\ \E late \in BOOLEAN:
                        logs' = IF late THEN logs \cup {<<"progress", "None">>} ELSE logs
  /\ UNCHANGED outsideLog

\* progress iterator g is abandoned before it is exhausted: closing the
\* generator raises GeneratorExit at its yield and the with statement exits
LogClose(g) ==
  /\ g \in 1..Len(lp.gens)
  /\ lp.gens[g].pc = "inside"
  /\ ctx' = PopContext(ctx)
  /\ lp' = [lp EXCEPT !.gens[g].pc = "closed", !.entered = Leave(@, g)]
  /\ UNCHANGED <<logs, outsideLog>>

LogAdvance == \E g \in 1..NGens: LogNext(g)
LogAbandon == \E g \in 1..NGens: LogClose(g)

InitLog ==
  /\ InitSolveState
  /\ spc = "none" /\ tol = Num(0) /\ maxiter = PosInf
  /\ gseq = <<>> /\ gpos = 0 /\ gpy = FALSE
  /\ heap = <<>>
  /\ nargs = NoArgs /\ nw = [NwCreated EXCEPT !.pc = "none"]
  /\ residual = [found |-> TRUE, linear |-> TRUE]
  /\ NoTheta /\ NoWith /\ sl = NoLinear
  /\ NoIntegral /\ pt = NoPseudo /\ op = NoOptimize
  /\ lp \in LogRuns

NextLog == LogEnter \/ LogExit \/ LogAdvance \/ LogAbandon

SpecLog == InitLog /\ [][NextLog]_vars

\* ---------------------------------------------------- the five entry points

\* no generator of newton in this run until one is made
NwNone == [NwCreated EXCEPT !.pc = "none"]
ThNone == targs = NoThetaArgs /\ th = [ThCreated EXCEPT !.pc = "none"] /\ tchan = Idle

\* the result is used through solve(tol, maxiter) or drawn from directly
Consumers ==
  \/ spc = "start" /\ tol = Num(TolBound) /\ maxiter \in {Num(MaxIterBound - 1), PosInf}
  \/ spc = "idle" /\ tol = Num(0) /\ maxiter = PosInf
NoConsumer == spc = "none" /\ tol = Num(0) /\ maxiter = PosInf

InitEntry ==
  /\ InitSolveState
  /\ gseq = <<>> /\ gpos = 0 /\ gpy = FALSE
  /\ residual \in Residuals
  /\ NoWith
  /\ NoIntegral /\ lp = NoLog
  /\ \/ /\ sl \in LinearCalls /\ NoConsumer /\ heap = <<>>
        /\ nargs = NoArgs /\ nw = NwNone /\ ThNone /\ pt = NoPseudo /\ op = NoOptimize
     \/ /\ nargs \in {a \in NewtonArgs : a.constrain.kind = "none" /\ IsFinite(a.nrelax)}
        /\ nw = NwCreated /\ Consumers
        /\ heap = IF nargs.lhs0 = 0 THEN <<>> ELSE <<CallerLhs0>>
        /\ sl = NoLinear /\ ThNone /\ pt = NoPseudo /\ op = NoOptimize
     \/ /\ pt \in PseudoCalls /\ Consumers /\ heap = <<CallerLhs0>>
        /\ sl = NoLinear /\ nargs = NoArgs /\ nw = NwNone /\ ThNone /\ op = NoOptimize
     \/ /\ targs \in {a \in ThetaArgs : a.constrain.kind = "none" /\ a.tol = Num(TolBound)}
        /\ th = ThCreated /\ tchan = Idle /\ NoConsumer /\ heap = <<CallerLhs0>>
        /\ sl = NoLinear /\ nargs = NoArgs /\ nw = NwNone /\ pt = NoPseudo /\ op = NoOptimize
     \/ /\ op \in OptimizeCalls /\ NoConsumer
        /\ heap = IF op.lhs0 = 0 THEN <<>> ELSE <<CallerLhs0>>
        /\ sl = NoLinear /\ nargs = NoArgs /\ nw = NwNone /\ ThNone /\ pt = NoPseudo

\* a caller's block 'with log.context(title):' around a call of solve or of
\* optimize: entered before the call, left when the call has returned or raised
BlockEnter ==
  /\ th.pc = "none" /\ chan.kind = "idle"
  /\ (spc = "start" /\ op.pc = "none") \/ op.pc = "called"
  /\ LogEnter

BlockExit ==
  /\ th.pc = "none"
  /\ (spc = "done" /\ op.pc = "none") \/ op.pc = "done"
  /\ LogExit

NextEntry ==
  \/ BlockEnter \/ BlockExit
  \/ SolveLinear
  \/ SolveStart \/ SolveFirstReturn \/ SolveLoopReturn \/ IterNext
  \/ NewtonStart \/ NewtonLinearReturn \/ NewtonStep \/ NewtonEval \/ NewtonDecide
  \/ PseudoStart \/ PseudoStep
  \/ ThetaDraw \/ ThetaStart \/ ThetaStep \/ ThetaStepReturn
  \/ OptimizeStart \/ OptimizeReturn

SpecEntry == InitEntry /\ [][NextEntry]_vars

\* ------------------------------------------------------- properties: solve

\* C1: solve returns an iterate only if the norm paired with it is less than
\* or equal to tol, whatever the norm is (a NaN included), and the iterate
\* returned is the one of the first pair that meets the tolerance.
C1_ReturnsOnlyWithinTol ==
  outcome = "returned" =>
    /\ ndrawn >= 1
    /\ Le(gseq[ndrawn][2], tol)
    /\ retval = gseq[ndrawn][1]
    /\ \A j \in 1..(ndrawn - 1): ~Le(gseq[j][2], tol)

\* C2: with a finite maxiter solve draws at most maxiter+1 pairs, it raises
\* 'tolerance not reached' exactly when the generator supplied maxiter+1
\* pairs and none of them has a norm <= tol, and it returns the iterate of
\* pair maxiter+1 when that pair is the first to meet the tolerance.
C2_RaisesExactlyWhenNoneWithinTol ==
  (spc = "done" /\ IsFinite(maxiter)) =>
    LET m == maxiter[1]
        supplied == Len(gseq) >= m + 1
    IN  /\ ndrawn <= m + 1
        /\ (outcome = ErrNotReached)
             <=> (supplied /\ \A j \in 1..(m + 1): ~Le(gseq[j][2], tol))
        /\ (supplied /\ Le(gseq[m + 1][2], tol) /\ \A j \in 1..m: ~Le(gseq[j][2], tol))
             => (outcome = "returned" /\ retval = gseq[m + 1][1])

\* C3: when a draw of solve finds the generator exhausted (no pair drawn so
\* far ended the loop, the iteration limit was not hit; the generator may have
\* yielded nothing at all), solve raises 'generator stopped before reaching
\* target tolerance' and returns no iterate.
C3_ExhaustedGeneratorRaises ==
  /\ (spc = "done" /\ chan.kind = "stop") =>
       (outcome = ErrStopped /\ retval = 0 /\ ndrawn = Len(gseq))
  /\ (spc = "done" /\ Len(gseq) = 0) => (outcome = ErrStopped /\ ndrawn = 0)

\* C3 happens: solve drew a pair, asked for more, and found the generator exhausted
C3_Witness == spc = "done" /\ chan.kind = "stop" /\ ndrawn >= 1 /\ outcome = ErrStopped

\* ------------------------------------------------------ properties: newton

\* C4: when the line search is at sub-step nrelax and the trial norm is larger
\* than the norm at the current iterate, the generator logs a warning and ends:
\* it yields nothing, raises nothing and leaves the iterate alone; it stays
\* ended, and a solve that is waiting for its next pair raises 'generator
\* stopped'.
C4_DivergedLineSearchEnds ==
  [][ /\ (nw.pc = "decide" /\ Num(nw.irelax) = nargs.nrelax /\ Gt(nw.res.norm, nw.resnorm))
          => /\ nw'.pc = "ended"
             /\ chan' = Stop
             /\ <<"warning", "failed to decrease residual">> \in logs'
             /\ nw'.nyields = nw.nyields
             /\ heap' = heap
      /\ (nw.pc = "ended" /\ chan.kind = "stop" /\ spc \in {"first", "loop"})
          => (spc' = "done" /\ outcome' = ErrStopped /\ retval' = 0)
      /\ nw.pc = "ended" => nw' = nw
    ]_vars

\* C4 happens: the line search gave up after at least one sub-step, and solve raised
C4_Witness ==
  /\ nw.pc = "ended"
  /\ nw.nyields >= 1
  /\ nw.irelax >= 1
  /\ <<"warning", "failed to decrease residual">> \in logs
  /\ outcome = ErrStopped

\* C5: for a residual whose Jacobian does not contain the target (and a valid
\* call), newton yields exactly one pair (x, 0), x being the result of its one
\* linear solve of jac x = -res at target = 0 with the fixed entries held at
\* their imposed values; no line search runs; the generator is then
\* exhausted; solve returns x after a single draw.
C5_LinearShortcut ==
  (residual.found /\ residual.linear /\ ~nargs.hastarget /\ sl.pc = "none") =>
    LET lhs0n == NormLhs0(nargs, heap)
        mask == NormConstrain(nargs)
        cons == [i \in Dofs |-> IF mask[i] THEN lhs0n[i] ELSE NaN]
    IN  /\ nw.pc \in {"created", "linear", "ended"}
        /\ nw.pc = "created" => (nw.nyields = 0 /\ nw.nsolves = 0)
        /\ nw.pc \in {"linear", "ended"} =>
             /\ nw.nyields = 1 /\ nw.nsolves = 1 /\ nw.nevals = 1
             /\ nw.solved = [rhs |-> "-res", at |-> VZeros, cons |-> cons]
             /\ heap[nw.lhs] \in MatSolve(cons)
        /\ chan.kind = "yield" => chan.item = <<nw.lhs, Num(0)>>
        /\ chan.kind \notin {"raise"}
        /\ nw.pc = "ended" => chan.kind = "stop"
        /\ spc = "done" => (outcome = "returned" /\ retval = nw.lhs /\ ndrawn = 1)

\* C5 happens: solve returned the solution of a constrained linear problem
C5_Witness ==
  /\ residual.linear
  /\ nw.pc = "linear"
  /\ spc = "done"
  /\ outcome = "returned"
  /\ \E i \in Dofs: NormConstrain(nargs)[i]
  /\ \E i \in Dofs: ~NormConstrain(nargs)[i]

\* C6: in every pair newton yields, each entry fixed by constrain holds its
\* imposed value: the value of constrain for a float vector, the value of lhs0
\* for a boolean mask.
C6_FixedEntriesKeepValue ==
  (chan.kind = "yield" /\ sl.pc = "none") =>
    \A i \in Dofs:
      NormConstrain(nargs)[i] =>
        heap[chan.item[1]][i] = IF nargs.constrain.kind = "float"
                                THEN nargs.constrain.vec[i]
                                ELSE GivenLhs0(nargs, heap)[i]

\* C7: solve_linear raises 'problem is not linear' whenever the Jacobian
\* contains the target, without any evaluation or linear solve; otherwise (for
\* a valid call) it evaluates once at target = 0, solves jac x = -res once
\* and returns that solution, the entries fixed by constrain at their values.
C7_SolveLinear ==
  sl.pc = "done" =>
    /\ (residual.found /\ ~residual.linear) =>
         /\ sl.err = ErrNotLinear
         /\ sl.result = 0 /\ sl.nevals = 0 /\ sl.nsolves = 0
         /\ heap = <<>>
    /\ (residual.found /\ residual.linear /\ ~sl.hastarget) =>
         /\ sl.err = "none"
         /\ sl.nevals = 1 /\ sl.nsolves = 1
         /\ sl.solved.rhs = "-res" /\ sl.solved.at = VZeros
         /\ sl.result # 0
         /\ \A i \in Dofs:
              (sl.constrain.kind = "float" /\ ~IsNaN(sl.constrain.vec[i]))
                => heap[sl.result][i] = sl.constrain.vec[i]
         /\ \E v \in SolVals: \A i \in Dofs:
              (sl.constrain.kind = "none" \/ IsNaN(sl.constrain.vec[i]))
                => heap[sl.result][i] = v
    /\ sl.err = ErrNotLinear => ~residual.linear

\* C7 happens: a nonlinear residual was refused although the target was in arguments
C7_Witness ==
  sl.pc = "done" /\ ~residual.linear /\ sl.hastarget /\ sl.err = ErrNotLinear

\* --------------------------------------------------- properties: withsolve

\* C8 as stated: for each of newton, pseudotime and thetamethod the object has
\* a solve method, whose outcome (iterate or error, states drawn) is that of
\* solve on the object's iterator.
C8_EveryEntryHasSolve ==
  (phase = 2 /\ spc = "done") =>
    /\ first.outcome # ErrNoSolve
    /\ first = [outcome |-> outcome, retval |-> retval, ndrawn |-> ndrawn]

\* C8: for newton and pseudotime the solve method of the object has the
\* outcome (iterate or error, states drawn) of solve on the object's iterator;
\* thetamethod returns a plain generator, without a solve method.
C8_DecoratedEntriesHaveSolve ==
  /\ (phase = 2 /\ spc = "done" /\ HasSolve(entry)) =>
       /\ first.outcome # ErrNoSolve
       /\ first = [outcome |-> outcome, retval |-> retval, ndrawn |-> ndrawn]
  /\ (phase = 2 /\ entry = "thetamethod") => first.outcome = ErrNoSolve

\* C8 happens: both calls on a newton object ran into the iteration limit
C8_Witness ==
  /\ phase = 2
  /\ spc = "done"
  /\ entry = "newton"
  /\ outcome = ErrNotReached
  /\ ndrawn >= 2

\* ------------------------------------------------- properties: thetamethod

\* C9: thetamethod never ends on its own: a draw (of a valid call) yields a
\* state or raises the error of the inner solve; each state after a state s is
\* what newton(lhs0=s, arguments={target0: s}).solve(tol) returned, s being
\* untouched by that solve.
C9_ThetaStepsAreNewtonSolves ==
  LET n == Len(th.yielded)
      valid == ~targs.hastarget /\ ~(targs.target0 /\ targs.hastarget0)
  IN  /\ tchan.kind # "stop"
      /\ (tchan.kind = "raise" /\ valid) =>
           (spc = "done" /\ outcome # "returned" /\ tchan.err = outcome)
      /\ (tchan.kind = "yield" /\ n >= 2) =>
           /\ spc = "done" /\ outcome = "returned"
           /\ tchan.item = retval /\ th.yielded[n] = retval /\ retval = nw.lhs
           /\ tol = targs.tol
           /\ nargs.lhs0 = th.yielded[n - 1]
           /\ nargs.prev = th.yielded[n - 1]
           /\ nw.lhs0 = heap[th.yielded[n - 1]]

\* C9 happens: two timesteps were drawn after the first state, the second by
\* a Newton iteration that moved
C9_Witness ==
  /\ Len(th.yielded) = 3
  /\ tchan.kind = "yield"
  /\ nw.nsolves >= 1
  /\ heap[th.yielded[3]] # heap[th.yielded[2]]

\* C10: the first vector drawn from thetamethod is the state after one
\* timestep, the result of a Newton solve, and not the initial condition lhs0.
C10_FirstStateIsAfterOneTimestep ==
  (tchan.kind = "yield" /\ Len(th.yielded) = 1) =>
    /\ tchan.item # targs.lhs0
    /\ spc = "done"
    /\ outcome = "returned"
    /\ tchan.item = retval

\* ----------------------------------------------------- properties: Integral

\* C11: for two integrals that share a key, multieval returns the pair of
\* what eval returns for the first and for the second, also when one of the
\* two lacks a key that the other has.
C11_MultievalEqualsEval ==
  (/\ last.op = "multieval" /\ Len(last.args) = 2
   /\ IKeysOf(pool[last.args[1]]) \cap IKeysOf(pool[last.args[2]]) # {}) =>
    last.value = <<Eval(pool[last.args[1]]), Eval(pool[last.args[2]])>>

\* C11 happens: multieval of two integrals that share a key, the first with
\* a key that the second lacks, and neither evaluates to zero
C11_Witness ==
  /\ last.op = "multieval" /\ Len(last.args) = 2
  /\ IKeysOf(pool[last.args[1]]) \cap IKeysOf(pool[last.args[2]]) # {}
  /\ IKeysOf(pool[last.args[1]]) \ IKeysOf(pool[last.args[2]]) # {}
  /\ \A j \in 1..2: \E i \in 1..Len(last.value[j].vals): ~IsZero(last.value[j].vals[i])

\* C12: multieval calls integrate once for every key of the union of its
\* operands' keys, each call with one integrand per operand in the order the
\* operands were passed: the operand's entry at the key, or zeros of the
\* operand's shape where it has none.
C12_OneCallPerKey ==
  last.op = "multieval" =>
    LET xs == [j \in 1..Len(last.args) |-> pool[last.args[j]]]
    IN  /\ Len(last.calls) = Cardinality(UnionKeys(xs))
        /\ {last.calls[i].key : i \in 1..Len(last.calls)} = UnionKeys(xs)
        /\ \A i \in 1..Len(last.calls):
             /\ Len(last.calls[i].integrands) = Len(xs)
             /\ \A j \in 1..Len(xs):
                  last.calls[i].integrands[j] =
                    IF last.calls[i].key \in IKeysOf(xs[j])
                      THEN IAt(xs[j], last.calls[i].key)
                      ELSE FZeros(xs[j].shape)

\* C12 happens: two operands with two keys between them, one shared, one
\* that only the second has: two calls of two integrands each
C12_Witness ==
  /\ last.op = "multieval" /\ Len(last.args) = 2
  /\ Len(last.calls) = 2
  /\ IKeysOf(pool[last.args[1]]) \cap IKeysOf(pool[last.args[2]]) # {}
  /\ IKeysOf(pool[last.args[2]]) \ IKeysOf(pool[last.args[1]]) # {}

\* C13: the empty integral is the identity of addition: e + x and x + e
\* have the keys, the integrands and the shape of x.
C13_EmptyIsIdentity ==
  (last.op = "add" /\ last.result # 0) =>
    /\ pool[last.args[1]].entries = <<>> => AsMap(pool[last.result]) = AsMap(pool[last.args[2]])
    /\ pool[last.args[2]].entries = <<>> => AsMap(pool[last.result]) = AsMap(pool[last.args[1]])

\* C13 happens: an empty integral plus an integral that has an entry
C13_Witness ==
  /\ last.op = "add" /\ last.result # 0
  /\ pool[last.args[1]].entries = <<>>
  /\ pool[last.args[2]].entries # <<>>
  /\ pool[last.result].entries # <<>>

\* the rows input j of a concatenation contributes at key k
RowsAt(x, k) == IF k \in IKeysOf(x) THEN IAt(x, k).rows ELSE [i \in 1..x.shape[1] |-> Num(0)]

\* C14: concatenate of integrals with equal trailing dimensions returns an
\* integral whose leading dimension is the sum of the inputs' leading
\* dimensions, whose keys are the union of the inputs' keys and whose entry at
\* a key concatenates, in input order, each input's integrand or zeros of the
\* input's shape; inputs with unequal trailing dimensions are rejected.
C14_Concatenate ==
  last.op = "concatenate" =>
    LET xs == [j \in 1..Len(last.args) |-> pool[last.args[j]]]
        r == pool[last.result]
    IN  IF \E j \in 1..Len(xs): Tail0(xs[j].shape) # Tail0(xs[1].shape)
          THEN last.err = ErrAssertion /\ last.result = 0
        ELSE IF \E j \in 1..Len(xs): xs[j].shape = <<>>
          THEN last.result = 0
        ELSE /\ last.err = "none" /\ last.result # 0
             /\ r.shape[1] = IF Len(xs) = 1 THEN xs[1].shape[1] ELSE xs[1].shape[1] + xs[2].shape[1]
             /\ Tail(r.shape) = Tail(xs[1].shape)
             /\ IKeysOf(r) = UnionKeys(xs)
             /\ Len(r.entries) = Cardinality(UnionKeys(xs))
             /\ \A k \in IKeysOf(r):
                  /\ IAt(r, k).shape = r.shape
                  /\ IAt(r, k).rows = IF Len(xs) = 1 THEN RowsAt(xs[1], k)
                                      ELSE RowsAt(xs[1], k) \o RowsAt(xs[2], k)

\* C14 happens: two integrals of different leading dimension are
\* concatenated, the second lacking a key of the first
C14_Witness ==
  /\ last.op = "concatenate" /\ last.result # 0 /\ Len(last.args) = 2
  /\ IKeysOf(pool[last.args[1]]) \ IKeysOf(pool[last.args[2]]) # {}
  /\ pool[last.args[2]].entries # <<>>
  /\ pool[last.result].shape[1] > pool[last.args[1]].shape[1]

\* C15: a + b and b + a have the same keys, the union of the keys of a and
\* b, and equal entries: the integrand of the one side that has the key, or
\* the sum of the two integrands where both have it.
C15_AddCommutes ==
  (last.op = "add" /\ last.result # 0) =>
    LET a == pool[last.args[1]]
        b == pool[last.args[2]]
        r == pool[last.result]
    IN  /\ AsMap(r) = AsMap(IAdd(b, a))
        /\ IKeysOf(r) = IKeysOf(a) \cup IKeysOf(b)
        /\ Len(r.entries) = Cardinality(IKeysOf(r))
        /\ \A k \in IKeysOf(r):
             IAt(r, k) = IF k \in IKeysOf(a) /\ k \in IKeysOf(b) THEN FAdd(IAt(a, k), IAt(b, k))
                         ELSE IF k \in IKeysOf(a) THEN IAt(a, k) ELSE IAt(b, k)

\* C15 happens: two integrals are added that have a key in common, with
\* different integrands whose sum differs from both
C15_Witness ==
  /\ last.op = "add" /\ last.result # 0
  /\ \E k \in IKeysOf(pool[last.args[1]]) \cap IKeysOf(pool[last.args[2]]):
       /\ IAt(pool[last.args[1]], k) # IAt(pool[last.args[2]], k)
       /\ IAt(pool[last.result], k) # IAt(pool[last.args[1]], k)
       /\ IAt(pool[last.result], k) # IAt(pool[last.args[2]], k)

\* C16: no call changes the keys, an entry or the shape of an integral built
\* earlier, and a combinator that returns gives a new container.
C16_OperandsUnchanged ==
  [][/\ Len(pool') >= Len(pool)
     /\ \A i \in 1..Len(pool): pool'[i] = pool[i]
     /\ last'.result # 0 => last'.result = Len(pool) + 1]_vars

\* C16 happens: a combinator of two operands returned an integral that
\* differs from both, after an earlier combinator
C16_Witness ==
  /\ Len(pool) = MaxPool
  /\ last.op \in {"add", "sub", "concatenate"} /\ last.result = MaxPool /\ Len(last.args) = 2
  /\ pool[last.result] # pool[last.args[1]]
  /\ pool[last.result] # pool[last.args[2]]

\* C17: every entry of every integral has the declared shape of its
\* container; derivative returns the original shape followed by the target's
\* shape; add, scale and replace return the shape of their operand.
C17_EntriesHaveDeclaredShape ==
  /\ \A n \in 1..Len(pool): \A i \in 1..Len(pool[n].entries):
       pool[n].entries[i].f.shape = pool[n].shape
  /\ (last.op = "derivative" /\ last.result # 0) =>
       pool[last.result].shape = pool[last.args[1]].shape \o AllArgs[last.aux].shape
  /\ (last.op \in {"add", "mul", "replace"} /\ last.result # 0) =>
       pool[last.result].shape = pool[last.args[1]].shape

\* C17 happens: the derivative of an integral with an entry
C17_Witness ==
  /\ last.op = "derivative" /\ last.result # 0
  /\ pool[last.result].entries # <<>>
  /\ Len(pool[last.result].shape) = Len(pool[last.args[1]].shape) + 1

\* the Arguments called name in the inputs of a _find_argument call
Named(name, fs) ==
  {a \in ArgIds : AllArgs[a].name = name /\ \E i \in 1..Len(fs): fs[i].deg[a] > 0}

\* C18: _find_argument fails with a not-found error when no input holds an
\* Argument of the name, fails with another error when the inputs hold
\* Arguments of the name with two different shapes, and otherwise returns
\* the first one met.
C18_FindArgumentOutcome ==
  last.op = "find" =>
    LET fs == Flatten([j \in 1..Len(last.args) |-> pool[last.args[j]]])
        named == Named(last.aux, fs)
    IN  IF named = {} THEN last.err = ErrValue
        ELSE IF \E a, b \in named: AllArgs[a].shape # AllArgs[b].shape
          THEN last.err \notin {"none", ErrValue}
        ELSE last.err = "none" /\ last.value \in named

\* ------------------------------------------------- properties: entry points

\* C19: a call of solve_linear, newton, pseudotime, thetamethod or optimize
\* whose arguments hold the target (for thetamethod also target0) fails: no
\* integral is evaluated, no linear system is solved, no iterate is yielded
\* and no result is returned.
C19_TargetInArgumentsRejected ==
  /\ (sl.pc # "none" /\ sl.hastarget) =>
       /\ sl.nevals = 0 /\ sl.nsolves = 0 /\ sl.result = 0
       /\ sl.pc = "done" => sl.err # "none"
       /\ heap = <<>>
  /\ nargs.hastarget =>
       /\ nw.nevals = 0 /\ nw.nsolves = 0 /\ nw.nyields = 0
       /\ nw.pc \in {"created", "raised"}
       /\ chan.kind # "yield" /\ outcome # "returned"
       /\ spc = "done" => outcome = ErrTargetInArguments
       /\ Len(heap) = IF nargs.lhs0 = 0 THEN 0 ELSE 1
  /\ pt.hastarget =>
       /\ pt.nevals = 0 /\ pt.nsolves = 0 /\ pt.nyields = 0
       /\ pt.pc \in {"created", "raised"}
       /\ chan.kind # "yield" /\ outcome # "returned"
       /\ spc = "done" => outcome = ErrTargetInArguments
       /\ heap = <<CallerLhs0>>
  /\ (targs.hastarget \/ (targs.target0 /\ targs.hastarget0)) =>
       /\ th.yielded = <<>> /\ th.pc \in {"created", "raised"}
       /\ tchan.kind # "yield"
       /\ th.pc = "raised" => tchan.kind = "raise"
       /\ nw.nevals = 0 /\ nw.nsolves = 0 /\ spc = "none"
       /\ heap = <<CallerLhs0>>
  /\ op.hastarget =>
       /\ op.nevals = 0 /\ op.nsolves = 0 /\ op.newtons = 0 /\ op.result = 0
       /\ op.pc = "done" => op.err = ErrTargetInArguments
       /\ nw.nevals = 0 /\ nw.nsolves = 0 /\ spc = "none"
       /\ Len(heap) = IF op.lhs0 = 0 THEN 0 ELSE 1

\* C19 happens: solve has drawn from a pseudotime whose arguments hold the
\* target, for a residual and an inertia that hold it too
C19_Witness ==
  /\ pt.hastarget /\ pt.inertia /\ residual.found
  /\ pt.pc = "raised"
  /\ spc = "done"
  /\ outcome = ErrTargetInArguments

\* C20 as stated: optimize without newtontol fails on a nonlinear problem
\* without running newton, and on a linear problem returns the result of the
\* single Newton step without running newton.
C20_OptimizeNewtontol ==
  (op.pc = "done" /\ ~op.hastarget /\ op.scalar /\ residual.found) =>
    /\ (~residual.linear /\ ~op.newtontol.given) =>
         op.err # "none" /\ op.result = 0 /\ op.newtons = 0 /\ nw.pc = "none"
    /\ residual.linear =>
         /\ op.err = "none" /\ op.newtons = 0 /\ nw.pc = "none"
         /\ op.result # 0
         /\ heap[op.result] = op.step

\* C20, amended: on a linear problem optimize returns, with or without
\* newtontol and without running newton, the result of the single Newton
\* step with NaN at the dofs dropped for droptol, or fails when the step has a
\* NaN at a dof that is neither constrained nor dropped; on a nonlinear
\* problem without newtontol it fails without running newton.
C20_OptimizeNewtontolDropped ==
  (op.pc = "done" /\ ~op.hastarget /\ op.scalar /\ residual.found) =>
    /\ (~residual.linear /\ ~op.newtontol.given) =>
         op.err = ErrNoNewtontol /\ op.result = 0 /\ op.newtons = 0 /\ nw.pc = "none"
    /\ residual.linear =>
         /\ op.err \in {"none", ErrOptimizationFailed} /\ op.newtons = 0 /\ nw.pc = "none"
         /\ op.err = "none" =>
              /\ op.result # 0
              /\ \A i \in Dofs:
                   heap[op.result][i] = IF op.nandofs[i] THEN NaN ELSE op.step[i]
         /\ op.err # "none" => op.result = 0

\* C20 happens: a linear problem, no newtontol, droptol drops one dof of
\* two, and the step moved the other
C20_Witness ==
  /\ op.pc = "done" /\ residual.linear /\ ~op.newtontol.given
  /\ op.result # 0
  /\ \E i, j \in Dofs: op.nandofs[i] /\ ~op.nandofs[j] /\ ~op.fixed[j]
  /\ heap[op.result] # op.step

\* C21: in the vector that optimize returns every position fixed by
\* constrain holds its imposed value, the value of lhs0 for a boolean mask
\* and the value in constrain for a float vector, whatever droptol drops.
C21_FixedHoldImposed ==
  (op.pc = "done" /\ op.result # 0) =>
    \A i \in Dofs:
      NormConstrain(op)[i] => heap[op.result][i] = NormLhs0(op, heap)[i]

C23_ContextIsOpenScopes ==
  ctx = [i \in 1..Len(lp.entered) |-> lp.entered[i].title]

\* C24: a trial point of newton's line search whose norm is not finite, at
\* whatever sub-step, is neither accepted nor the end of the generator: the
\* relaxation is multiplied by minrelax and the next trial point is evaluated.
C24_NonFiniteTrialShrinks ==
  [][(nw.pc = "decide" /\ ~IsFinite(nw.res.norm) /\ nw' # nw) =>
       /\ nw'.pc = "eval"
       /\ nw'.irelax = nw.irelax + 1
       /\ nw'.relax = Mul(nw.relax, nargs.minrelax)
       /\ chan' = chan
       /\ heap' = heap]_vars

\* C25: with a finite nrelax newton evaluates at most nrelax+1 trial points
\* between two yields; the trial point of sub-step nrelax is accepted and
\* yielded when its norm is not greater than the current norm, and ends the
\* generator otherwise: it is never followed by another trial.
C25_AtMostNRelaxPlusOneTrials ==
  [][IsFinite(nargs.nrelax) =>
       /\ Le(Num(nw'.ntrials), Add(nargs.nrelax, Num(1)))
       /\ (nw.pc = "decide" /\ Num(nw.irelax) = nargs.nrelax /\ nw' # nw) =>
            IF Gt(nw.res.norm, nw.resnorm)
            THEN nw'.pc = "ended" /\ chan' = Stop /\ heap' = heap
            ELSE /\ nw'.pc = "iter"
                 /\ chan' = Yield(<<nw.lhs, nw.res.norm>>)
                 /\ heap'[nw.lhs] = nw.res.at]_vars

\* C25 witness: with nrelax = 1 the second trial point of an iteration was
\* accepted and yielded after the first one was turned down
C25_Witness ==
  /\ nargs.nrelax = Num(1)
  /\ nw.pc = "iter" /\ nw.irelax = 1 /\ nw.ntrials = 2
  /\ chan.kind = "yield"
  /\ IsFinite(nw.resnorm)

\* C26: for 0 < minrelax <= maxrelax <= 1 and rebound > 0 the relaxation of
\* newton lies in (0, 1] at every trial evaluation and at every accepted step;
\* an outer iteration starts with min(relax * rebound, 1), relax being 1
\* before the first one, and a sub-step multiplies it by a factor between
\* minrelax and maxrelax; nothing else changes it.
C26_RelaxInUnitInterval ==
  [][/\ nw'.pc \in {"eval", "decide"} =>
          Gt(nw'.relax, Num(0)) /\ Le(nw'.relax, Num(1))
     /\ (nw.pc = "decide" /\ nw'.pc = "iter") =>
          Gt(nw.relax, Num(0)) /\ Le(nw.relax, Num(1))
     /\ nw'.pc = "iter" /\ nw'.nyields = 1 => nw'.relax = Num(1)
     /\ IF nw.pc = "iter" /\ nw'.pc = "eval"
        THEN nw'.relax = PyMin(Mul(nw.relax, nargs.rebound), Num(1))
        ELSE IF nw.pc = "decide" /\ nw'.pc = "eval"
        THEN \E f \in {nargs.minrelax,
                       Estimate(nw.resnorm, nw.res.norm, nw.res.d1, nargs.maxrelax).newrelax}:
               /\ Ge(f, nargs.minrelax) /\ Le(f, nargs.maxrelax)
               /\ nw'.relax = Mul(nw.relax, f)
        ELSE nw.pc # "created" => nw'.relax = nw.relax]_vars

\* C27: the norm in a pair yielded by newton on the nonlinear path or by
\* pseudotime is the norm of the residual evaluated at the iterate of that
\* pair; the residual and Jacobian the generator holds between two yields,
\* and solves with in the next iteration, are those of that iterate.
C27_NormIsOfYieldedIterate ==
  /\ (nw.pc = "iter" /\ chan.kind = "yield" /\ th.pc = "none") =>
       /\ chan.item = <<nw.lhs, nw.res.norm>>
       /\ nw.res.at = heap[nw.lhs]
       /\ nw.resnorm = nw.res.norm
  /\ nw.pc \in {"eval", "decide"} =>
       nw.solved.rhs = "res" /\ nw.solved.at = heap[nw.lhs]
  /\ pt.pc = "suspended" =>
       /\ pt.res.at = heap[pt.lhs]
       /\ pt.resnorm = pt.res.norm
       /\ chan.kind = "yield" => chan.item = <<pt.lhs, pt.res.norm>>

\* C27 witness: newton yields the second trial point of an iteration, which
\* differs from the iterate before, with the norm evaluated there
C27_Witness ==
  /\ nw.pc = "iter" /\ nw.irelax = 1 /\ nw.nyields = 2
  /\ chan.kind = "yield"
  /\ IsFinite(nw.res.norm)
  /\ heap[nw.lhs] # NormLhs0(nargs, heap)
  /\ heap[nw.lhs] = nw.res.at

\* C28 as stated: after a step of pseudotime the timestep of the next
\* Jacobian is the timestep of the Jacobian before, multiplied by the initial
\* norm over the norm of the iterate just computed.
C28_TimestepCumulative ==
  (pt.pc = "suspended" /\ pt.nyields >= 2) =>
    pt.thistimestep = Mul(pt.prevstep, Div(pt.resnorm0, pt.resnorm))

\* C28 amended: after a step of pseudotime the timestep of the next Jacobian
\* is the timestep argument multiplied by the initial norm over the norm of
\* the iterate before the step; the timestep argument never changes.
C28_TimestepFromInitial ==
  /\ pt.pc # "none" => pt.timestep = Num(2)
  /\ (pt.pc = "suspended" /\ pt.nyields >= 2) =>
       pt.thistimestep = Mul(pt.timestep, Div(pt.resnorm0, pt.prevnorm))

\* C28 witness: two steps were taken from a first norm of 2, the norm
\* before the second step being 1 and the norm after it 2
C28_Witness ==
  /\ pt.pc = "suspended" /\ pt.nyields = 3
  /\ pt.resnorm0 = Num(2) /\ pt.prevnorm = Num(1) /\ pt.resnorm = Num(2)
  /\ pt.thistimestep = Num(4)

\* C29: when solve has returned or raised, when optimize (decorated with
\* log.title) has returned or raised, and when a with-block has been left,
\* the context list is what it was before: the titles of the caller's blocks
\* that are still open, and under optimize its own title after them.
C29_ContextRestored ==
  LET before == [i \in 1..Len(lp.entered) |-> lp.entered[i].title] IN
  /\ (spc = "done" /\ op.pc = "none" /\ th.pc = "none") => ctx = before
  /\ (spc = "done" /\ op.pc = "newton") => ctx = Append(before, <<"optimize", 0>>)
  /\ op.pc = "done" => ctx = before
  /\ (sl.pc = "none" /\ lp.gens = <<>> /\ lp.nblocks = 0 /\ spc \in {"none", "done"}
        /\ op.pc \in {"none", "done"} /\ th.pc = "none") => ctx = <<>>

\* C29 witness: inside a caller's block solve drew a pair under an 'iter'
\* context and then raised 'tolerance not reached'
C29_Witness ==
  /\ spc = "done" /\ op.pc = "none"
  /\ outcome \notin {"none", "returned"}
  /\ inewton >= 1 /\ IsFinite(maxiter)
  /\ lp.nblocks = 1
  /\ ctx = <<<<"with", 1, -1>>>>

\* C30: the array of an iterate that newton or pseudotime has yielded keeps
\* its value when the generator runs on: no later step of the generator
\* writes to it.
C30_YieldedIterateKept ==
  [][/\ (nw.pc \in {"iter", "eval", "decide"} /\ nw' # nw) =>
          heap'[nw.lhs] = heap[nw.lhs]
     /\ (pt.pc = "suspended" /\ pt' # pt) =>
          heap'[pt.lhs] = heap[pt.lhs]]_vars

====
